---------------------------- MODULE Spec2Model ----------------------------
(***************************************************************************)
(* Transaction engine of txs-eng: client accounts, deposit records and     *)
(* the withdrawal-id set, driven by Engine::apply one transaction at a     *)
(* time (src/src/engine/mod.rs, src/src/engine/state.rs, src/src/model.rs).*)
(* Amounts are the scaled i64 integers of src/src/amount.rs; the bounds    *)
(* below keep every sum far inside the i64 range, so +/- never overflow.   *)
(***************************************************************************)
EXTENDS Integers, FiniteSets, Sequences, TLC

(* ------------------------------ bounds -------------------------------- *)
MaxClient == 2
MaxTx == 2
MaxAmount == 2
MaxSteps == 6
MaxStream == 2
MaxBurst == 17
MaxScaled == 12
MaxRows == 3

\* tokio::sync::mpsc::channel(16)
ChannelCapacity == 16

ClientIds == 1..MaxClient
TxIds == 1..MaxTx
Amounts == 0..MaxAmount

(* --------------------------- program state ---------------------------- *)
VARIABLES
    clients,          \* Engine.clients: ClientId -> ClientAccount (partial map)
    deposits,         \* Engine.deposits: TxId -> DepositRecord (partial map)
    withdrawal_ids,   \* Engine.withdrawal_ids: set of TxId
    lastTx,           \* the transaction handed to the latest apply
    result,           \* what the latest apply returned
    steps,            \* number of apply calls made so far
    sumDeposits,      \* history: sum of amounts of deposits that returned Ok
    sumWithdrawals,   \* history: sum of amounts of withdrawals that returned Ok
    sumChargebacks,   \* history: sum of amounts of chargebacks that returned Ok
    accepted,         \* history: TxId -> number of deposits/withdrawals that returned Ok
    chargedBack,      \* history: ids of deposits whose chargeback returned Ok
    withdrawn,        \* history: ids of withdrawals that returned Ok
    resolved,         \* history: ids of deposits for which a resolve returned Ok
    beforeDispute,    \* history: the tables as they were before the latest Dispute, while only its Resolve followed
    detail,           \* the fields of the ClientMismatch error the latest apply returned, if it did
    ledger,           \* history: per client, what its accepted transactions add up to
    credited,         \* history: per id, the client and amount of the deposit whose record is stored
    negativeSeen,     \* history: some Deposit or Withdrawal applied so far had a negative amount
    transactions,     \* main.rs: the array the producer task sends
    queue,            \* the mpsc channel: transactions sent and not yet received
    sent,             \* number of sends the producer has completed
    producer,         \* producer task: "idle", "sending", "done" (sender dropped) or "panicked"
    receiver,         \* the receiving end: "open" or "dropped"
    runner,           \* Engine::run: "idle" (not called), "running" or "returned"
    applied,          \* history: the transactions run has handed to apply, in order
    outcomes,         \* history: what apply returned for each of them
    closedWith,       \* history: length of the queue when the sender was dropped (-1 before)
    scaledAmount,     \* amount.rs: the Amount (its i64) that is formatted
    overflow_checks,  \* whether the build checks integer overflow (debug) or wraps (release)
    shown,            \* the text Display wrote for scaledAmount
    reparsed,         \* the Amount from_float made of that text
    amountPc,         \* "idle", "new", "shown", "panicked", "parsed" or "rejected"
    rows,             \* csv.rs: the data rows of the input file
    items,            \* the items the iterator of read_transactions yields, one per row
    cursor,           \* number of items the reader task has taken
    warnings,         \* the row errors written to the diagnostic stream, in order
    exit_code         \* the exit code of the process (-1 while it runs)

vars == <<clients, deposits, withdrawal_ids, lastTx, result, steps,
          sumDeposits, sumWithdrawals, sumChargebacks,
          accepted, chargedBack, withdrawn, resolved, beforeDispute,
          detail, ledger, credited, negativeSeen,
          transactions, queue, sent, producer, receiver, runner,
          applied, outcomes, closedWith,
          scaledAmount, overflow_checks, shown, reparsed, amountPc,
          rows, items, cursor, warnings, exit_code>>

\* The engine's tables and the history of its apply calls
engineVars == <<clients, deposits, withdrawal_ids, lastTx, result, steps,
                sumDeposits, sumWithdrawals, sumChargebacks,
                accepted, chargedBack, withdrawn, resolved, beforeDispute,
                detail, ledger, credited, negativeSeen>>

\* The producer task, the channel and the run loop
driverVars == <<transactions, queue, sent, producer, receiver, runner,
                applied, outcomes, closedWith>>

\* The Amount put through Display and from_float
amountVars == <<scaledAmount, overflow_checks, shown, reparsed, amountPc>>

\* The input file and what the reader made of it
csvVars == <<rows, items, cursor, warnings, exit_code>>

(* ------------------------------ model.rs ------------------------------ *)
\* DepositRecord::new: a record in the Ok state
DepositRecord_new(client, amount) ==
    [client |-> client, amount |-> amount, state |-> "Ok"]

(* --------------------------- engine/state.rs -------------------------- *)
\* ClientAccount::new: zero balances, not frozen
ClientAccount_new(id) ==
    [id |-> id, available |-> 0, held |-> 0, frozen |-> FALSE]

total(account) == account.available + account.held

credit(account, amount) ==
    [account EXCEPT !.available = @ + amount]

debit(account, amount) ==
    [account EXCEPT !.available = @ - amount]

hold_swapped(account, amount) ==
    [account EXCEPT !.available = @ + amount, !.held = @ - amount]

hold(account, amount) ==
    [account EXCEPT !.available = @ - amount, !.held = @ + amount]

release_keeps_held(account, amount) ==
    [account EXCEPT !.available = @ + amount]

release(account, amount) ==
    [account EXCEPT !.held = @ - amount, !.available = @ + amount]

remove_held_noop(account, amount) ==
    account

remove_held(account, amount) ==
    [account EXCEPT !.held = @ - amount]

freeze_noop(account) ==
    account

freeze(account) ==
    [account EXCEPT !.frozen = TRUE]

\* ClientAccount::unfreeze (for admin): public, and called by no function of
\* the engine
unfreeze(account) ==
    [account EXCEPT !.frozen = FALSE]

(* ---------------------------- map helpers ----------------------------- *)
\* HashMap::insert
MapInsert(m, k, v) ==
    [x \in DOMAIN m \cup {k} |-> IF x = k THEN v ELSE m[x]]

\* HashMap::remove
MapRemove(m, k) ==
    [x \in DOMAIN m \ {k} |-> m[x]]

\* self.clients.entry(client).or_insert_with(|| ClientAccount::new(client))
entry_or_insert(cl, client) ==
    IF client \in DOMAIN cl THEN cl ELSE MapInsert(cl, client, ClientAccount_new(client))

(* ------------------------------ amount.rs ----------------------------- *)
\* Amount::SCALE
SCALE == 10000

\* A natural number of any size: its digits in radix SCALE, least significant
\* first, no leading zero digit (zero is the empty sequence). i64 and f64
\* values do not fit the model checker's machine integers.
BigTrim(x) ==
    LET used == {i \in 1..Len(x) : x[i] # 0} IN
    IF used = {} THEN <<>>
    ELSE SubSeq(x, 1, CHOOSE i \in used : \A j \in used : j <= i)

\* x * k + c as exactly Len(x) digits and the carry out of them (k and c below
\* SCALE), the lower half of the digits first
RECURSIVE MulAddCarry(_, _, _)
MulAddCarry(x, k, c) ==
    IF x = <<>>
    THEN [digits |-> <<>>, carry |-> c]
    ELSE IF Len(x) = 1
    THEN [digits |-> <<(x[1] * k + c) % SCALE>>, carry |-> (x[1] * k + c) \div SCALE]
    ELSE LET h  == Len(x) \div 2
             lo == MulAddCarry(SubSeq(x, 1, h), k, c)
             hi == MulAddCarry(SubSeq(x, h + 1, Len(x)), k, lo.carry)
         IN  [digits |-> lo.digits \o hi.digits, carry |-> hi.carry]

\* x * k + c, for small k and c
BigMulAdd(x, k, c) ==
    LET r == MulAddCarry(x, k, c) IN
    IF r.carry = 0 THEN r.digits ELSE r.digits \o <<r.carry>>

BigInc(x) == BigMulAdd(x, 1, 1)

RECURSIVE BigAdd(_, _, _)
BigAdd(x, y, carry) ==
    IF x = <<>> /\ y = <<>>
    THEN IF carry = 0 THEN <<>> ELSE <<carry>>
    ELSE LET d == (IF x = <<>> THEN 0 ELSE Head(x))
                  + (IF y = <<>> THEN 0 ELSE Head(y)) + carry
         IN  <<d % SCALE>> \o BigAdd(IF x = <<>> THEN x ELSE Tail(x),
                                     IF y = <<>> THEN y ELSE Tail(y),
                                     d \div SCALE)

\* Long division by a small d of the digits y, most significant first, with r
\* carried in above them (r below d): the quotient, Len(y) digits most
\* significant first, and the remainder
RECURSIVE DivRemCarry(_, _, _)
DivRemCarry(y, d, r) ==
    IF y = <<>>
    THEN [q |-> <<>>, r |-> r]
    ELSE IF Len(y) = 1
    THEN [q |-> <<(r * SCALE + y[1]) \div d>>, r |-> (r * SCALE + y[1]) % d]
    ELSE LET h  == Len(y) \div 2
             hi == DivRemCarry(SubSeq(y, 1, h), d, r)
             lo == DivRemCarry(SubSeq(y, h + 1, Len(y)), d, hi.r)
         IN  [q |-> hi.q \o lo.q, r |-> lo.r]

BigReverse(x) == [i \in 1..Len(x) |-> x[Len(x) + 1 - i]]

\* Quotient (with leading zero digits) and remainder of x by a small d
BigDivRem(x, d) ==
    LET res == DivRemCarry(BigReverse(x), d, 0) IN
    [q |-> BigReverse(res.q), r |-> res.r]

\* x * 2^k and x div 2^k: thirteen bits at most in one pass over the digits,
\* a longer shift as two shifts of half the length
RECURSIVE BigShl(_, _)
BigShl(x, k) ==
    IF x = <<>> THEN <<>>
    ELSE IF k <= 13 THEN BigMulAdd(x, 2^k, 0)
    ELSE BigShl(BigShl(x, k \div 2), k - k \div 2)

RECURSIVE BigShr(_, _)
BigShr(x, k) ==
    IF x = <<>> THEN <<>>
    ELSE IF k <= 13 THEN BigTrim(BigDivRem(x, 2^k).q)
    ELSE BigShr(BigShr(x, k \div 2), k - k \div 2)

BigIsOdd(x) == x # <<>> /\ Head(x) % 2 = 1

BigLess(x, y) ==
    \/ Len(x) < Len(y)
    \/ /\ Len(x) = Len(y)
       /\ \E i \in 1..Len(x) :
             /\ x[i] < y[i]
             /\ \A j \in (i + 1)..Len(x) : x[j] = y[j]

\* x * SCALE, x div SCALE and x mod SCALE
BigMulScale(x) == IF x = <<>> THEN <<>> ELSE <<0>> \o x

BigDivScale(x) == IF x = <<>> THEN <<>> ELSE Tail(x)

BigModScale(x) == IF x = <<>> THEN 0 ELSE Head(x)

\* x - 1, for x above zero
RECURSIVE BigDec(_)
BigDec(x) ==
    IF Head(x) > 0
    THEN BigTrim(<<Head(x) - 1>> \o Tail(x))
    ELSE <<SCALE - 1>> \o BigDec(Tail(x))

BigPow2(k) == BigShl(<<1>>, k)

RECURSIVE BigFromInt(_)
BigFromInt(n) ==
    IF n = 0 THEN <<>> ELSE <<n % SCALE>> \o BigFromInt(n \div SCALE)

\* An i64 as sign and magnitude; zero is not negative
I64(neg, mag) == [neg |-> neg /\ mag # <<>>, mag |-> mag]

\* Amount::from_scaled for a value the model checker can write
from_scaled(n) == I64(n < 0, BigFromInt(IF n < 0 THEN -n ELSE n))

\* i64::MIN and i64::MAX
I64_MIN == I64(TRUE, BigPow2(63))

I64_MAX == I64(FALSE, BigDec(BigPow2(63)))

\* What a panic leaves in place of the text
Panic == <<"panic">>

Digits == <<"0", "1", "2", "3", "4", "5", "6", "7", "8", "9">>

\* The four decimal digits of a digit of radix SCALE
LimbDigits(v) ==
    <<Digits[1 + (v \div 1000)], Digits[1 + ((v \div 100) % 10)],
      Digits[1 + ((v \div 10) % 10)], Digits[1 + (v % 10)]>>

RECURSIVE AllDigits(_)
AllDigits(x) ==
    IF x = <<>> THEN <<>> ELSE AllDigits(Tail(x)) \o LimbDigits(Head(x))

RECURSIVE StripZeros(_)
StripZeros(s) ==
    IF Len(s) > 1 /\ Head(s) = "0" THEN StripZeros(Tail(s)) ELSE s

RECURSIVE ZeroPad(_, _)
ZeroPad(s, width) ==
    IF Len(s) < width THEN ZeroPad(<<"0">> \o s, width) ELSE s

\* Decimal writing of a natural number, as the integer formatter gives it
Decimal(x) == IF x = <<>> THEN <<"0">> ELSE StripZeros(AllDigits(x))

\* `{}` of an i64
FmtInt(v) == (IF v.neg THEN <<"-">> ELSE <<>>) \o Decimal(v.mag)

\* `{:04}` of an i64: zeros fill the width that the sign leaves
FmtIntPad4(v) ==
    IF v.neg
    THEN <<"-">> \o ZeroPad(Decimal(v.mag), 3)
    ELSE ZeroPad(Decimal(v.mag), 4)

\* i64::abs: at i64::MIN it panics where overflow checks are on and wraps to
\* i64::MIN where they are off
i64_abs(n) == IF n = I64_MIN THEN n ELSE I64(FALSE, n.mag)

\* `abs / Self::SCALE` and `abs % Self::SCALE`: truncating, the remainder has
\* the sign of the dividend
i64_div_scale(n) == I64(n.neg, BigDivScale(n.mag))

i64_rem_scale(n) == I64(n.neg, BigFromInt(BigModScale(n.mag)))

\* impl fmt::Display for Amount
Display(n, checks) ==
    IF n = I64_MIN /\ checks
    THEN Panic
    ELSE LET sign  == IF n.neg THEN <<"-">> ELSE <<>>
             abs   == i64_abs(n)
             whole == i64_div_scale(abs)
             frac  == i64_rem_scale(abs)
         IN  sign \o FmtInt(whole) \o <<".">> \o FmtIntPad4(frac)

\* A finite f64 of value m * 2^e (m below 2^53) and of either sign
F64(neg, m, e) == [kind |-> "num", neg |-> neg, m |-> m, e |-> e]

\* f64::INFINITY and f64::NEG_INFINITY
F64Inf(neg) == [kind |-> "inf", neg |-> neg, m |-> <<>>, e |-> 0]

\* f64::NAN
F64NaN == [kind |-> "nan", neg |-> FALSE, m |-> <<>>, e |-> 0]

\* Err(ParseFloatError)
F64Err == [kind |-> "err", neg |-> FALSE, m |-> <<>>, e |-> 0]

DigitValue(ch) == CHOOSE d \in 0..9 : Digits[d + 1] = ch

IsDigit(ch) == \E d \in 1..10 : Digits[d] = ch

\* The letters of "e", "inf", "infinity" and "nan" in lower case
Lower(ch) ==
    CASE ch = "E" -> "e"
      [] ch = "I" -> "i"
      [] ch = "N" -> "n"
      [] ch = "F" -> "f"
      [] ch = "T" -> "t"
      [] ch = "Y" -> "y"
      [] ch = "A" -> "a"
      [] OTHER -> ch

\* The natural number a sequence of decimal digits writes
DigitsToBig(ds) ==
    LET n == Len(ds)
        digit(p) == IF p >= 1 THEN DigitValue(ds[p]) ELSE 0
    IN  BigTrim([i \in 1..((n + 3) \div 4) |->
                   1000 * digit(n - 4 * i + 1) + 100 * digit(n - 4 * i + 2)
                     + 10 * digit(n - 4 * i + 3) + digit(n - 4 * i + 4)])

\* The exponent digits that decide the exponent: the zeros in front leave it
\* at 0, and six digits after them take it to 0x10000 or beyond
ExpDigits(ds) ==
    LET used == {i \in 1..Len(ds) : ds[i] # "0"} IN
    IF used = {} THEN <<>>
    ELSE LET first == CHOOSE i \in used : \A j \in used : i <= j
             last  == IF first + 5 < Len(ds) THEN first + 5 ELSE Len(ds)
         IN  SubSeq(ds, first, last)

\* The exponent its digits write, as the parser of f64 accumulates it:
\* `if exponent < 0x10000 { exponent = 10 * exponent + digit }`, the digits
\* after that read and left out
RECURSIVE ExpValue(_, _)
ExpValue(ds, acc) ==
    IF ds = <<>> \/ acc >= 65536 THEN acc
    ELSE ExpValue(Tail(ds), acc * 10 + DigitValue(Head(ds)))

\* The number of decimal digits of x (x above zero)
DecimalDigits(x) ==
    LET top == x[Len(x)] IN
    4 * (Len(x) - 1)
      + (IF top >= 1000 THEN 4 ELSE IF top >= 100 THEN 3 ELSE IF top >= 10 THEN 2 ELSE 1)

\* x * 10^n
BigMulPow10(x, n) ==
    IF x = <<>> THEN <<>>
    ELSE [i \in 1..(n \div 4) |-> 0] \o BigMulAdd(x, 10^(n % 4), 0)

\* floor(x / 10^n), and whether a remainder was cut off
BigDivPow10(x, n) ==
    LET a    == n \div 4
        kept == IF a >= Len(x) THEN <<>> ELSE SubSeq(x, a + 1, Len(x))
        dr   == BigDivRem(kept, 10^(n % 4))
    IN  [q |-> BigTrim(dr.q),
         sticky |-> dr.r # 0 \/ \E i \in 1..Len(x) : i <= a /\ x[i] # 0]

\* floor(x * 2^sh / 10^n) for sh of either sign, and whether a remainder was
\* cut off
BigScaled(x, sh, n) ==
    IF sh >= 0
    THEN BigDivPow10(BigShl(x, sh), n)
    ELSE LET d == BigDivPow10(x, n)
             q == BigShr(d.q, -sh)
         IN  [q |-> q, sticky |-> d.sticky \/ BigShl(q, -sh) # d.q]

\* The integer nearest to v, ties to even, from q2 = floor(2 * v) and whether
\* 2 * v is above q2
RoundEven(q2, sticky) ==
    LET q == BigShr(q2, 1) IN
    IF BigIsOdd(q2) /\ (sticky \/ BigIsOdd(q)) THEN BigInc(q) ELSE q

\* m * 2^e as an f64, m being 2^53 at most: 2^53 takes the next exponent, and
\* a value of 2^1024 or above is an infinity
F64Finite(neg, m, e) ==
    LET carry == m = BigPow2(53)
        exp   == IF carry THEN e + 1 ELSE e
    IN  IF m = <<>> THEN F64(neg, <<>>, 0)
        ELSE IF exp > 971 THEN F64Inf(neg)
        ELSE F64(neg, IF carry THEN BigPow2(52) ELSE m, exp)

\* The f64 nearest to digits * 10^exp10, ties to even: 53 bits for a normal
\* value, the multiple of 2^-1074 for a subnormal one
NearestF64(neg, digits, exp10) ==
    IF digits = <<>> THEN F64(neg, <<>>, 0)
    ELSE LET dl == DecimalDigits(digits) + exp10 IN   \* 10^(dl-1) <= value < 10^dl
         IF dl > 309 THEN F64Inf(neg)
         ELSE IF dl < -324 THEN F64(neg, <<>>, 0)
         ELSE LET x  == BigMulPow10(digits, IF exp10 > 0 THEN exp10 ELSE 0)
                  n  == IF exp10 < 0 THEN -exp10 ELSE 0
                  \* 2^lb <= value < 2^(lb + 7)
                  lb == (((dl - 1) * 3321928) \div 1000000) - 2
                  y0 == BigScaled(x, 53 - lb, n).q
                  i  == CHOOSE j \in 0..6 :
                           /\ ~BigLess(y0, BigPow2(53 + j))
                           /\ BigLess(y0, BigPow2(54 + j))
                  \* 2^52 <= value / 2^norm < 2^53
                  norm == i + lb - 52
                  e  == IF norm < -1074 THEN -1074 ELSE norm
                  d  == BigScaled(x, 1 - e, n)
              IN  F64Finite(neg, RoundEven(d.q, d.sticky), e)

\* str::parse::<f64>, which the csv reader applies to a non-empty amount
\* field: an optional sign, then "inf", "infinity" or "nan" in any case, or
\* digits with an optional '.' and an optional exponent
parse_f64(text) ==
    LET signed == text # <<>> /\ Head(text) \in {"-", "+"}
        neg    == text # <<>> /\ Head(text) = "-"
        rest   == IF signed THEN Tail(text) ELSE text
        body   == [i \in 1..Len(rest) |-> Lower(rest[i])]
        es     == {i \in 1..Len(body) : body[i] = "e"}
        epos   == IF es = {} THEN Len(body) + 1
                  ELSE CHOOSE i \in es : \A j \in es : i <= j
        mant   == SubSeq(body, 1, epos - 1)
        expo   == SubSeq(body, epos + 1, Len(body))
        eneg   == expo # <<>> /\ Head(expo) = "-"
        edigs  == IF expo # <<>> /\ Head(expo) \in {"-", "+"} THEN Tail(expo) ELSE expo
        dots   == {i \in 1..Len(mant) : mant[i] = "."}
        dot    == IF dots = {} THEN Len(mant) + 1 ELSE CHOOSE i \in dots : TRUE
        ints   == SubSeq(mant, 1, dot - 1)
        fracs  == SubSeq(mant, dot + 1, Len(mant))
    IN  IF body \in {<<"i", "n", "f">>, <<"i", "n", "f", "i", "n", "i", "t", "y">>}
        THEN F64Inf(neg)
        ELSE IF body = <<"n", "a", "n">>
        THEN F64NaN
        ELSE IF \/ Cardinality(dots) > 1
                \/ ints \o fracs = <<>>
                \/ \E i \in 1..Len(mant) : i # dot /\ ~IsDigit(mant[i])
                \/ es # {} /\ edigs = <<>>
                \/ \E i \in 1..Len(edigs) : ~IsDigit(edigs[i])
        THEN F64Err
        ELSE NearestF64(neg, DigitsToBig(ints \o fracs),
                        (IF eneg THEN -ExpValue(ExpDigits(edigs), 0)
                         ELSE ExpValue(ExpDigits(edigs), 0))
                          - Len(fracs))

\* `value * Self::SCALE as f64`: the exact product m * SCALE * 2^e rounded to
\* 53 bits, ties to even; an infinity or NaN stays what it is
f64_mul_scale(v) ==
    IF v.kind # "num" \/ v.m = <<>> THEN v
    ELSE LET p  == BigMulScale(v.m)
             j  == CHOOSE i \in 0..14 :
                      /\ BigLess(BigShr(p, i), BigPow2(53))
                      /\ i > 0 => ~BigLess(BigShr(p, i - 1), BigPow2(53))
             dr == BigDivRem(p, 2^j)
             q  == BigTrim(dr.q)
             up == 2 * dr.r > 2^j \/ (2 * dr.r = 2^j /\ BigIsOdd(q))
         IN  F64Finite(v.neg, IF up THEN BigInc(q) ELSE q, v.e + j)

\* The integer nearest to m * 2^e, ties away from zero (m below 2^53, e below 0)
RoundHalfAway(m, e) ==
    IF e < -54
    THEN <<>>
    ELSE BigShr(BigAdd(m, BigPow2(-e - 1), 0), -e)

\* f64::round: a value with e >= 0 is an integer already
f64_round(v) ==
    IF v.kind # "num" \/ v.e >= 0 THEN v
    ELSE F64(v.neg, RoundHalfAway(v.m, v.e), 0)

\* `as i64` of an f64 without a fraction: saturating, and 0 for NaN
f64_as_i64(v) ==
    IF v.kind = "nan" \/ (v.kind = "num" /\ v.m = <<>>)
    THEN I64(FALSE, <<>>)
    ELSE IF v.kind = "inf" \/ v.e > 63
    THEN IF v.neg THEN I64_MIN ELSE I64_MAX
    ELSE LET mag == BigShl(v.m, v.e) IN
         IF v.neg
         THEN IF BigLess(BigPow2(63), mag) THEN I64_MIN ELSE I64(TRUE, mag)
         ELSE IF BigLess(mag, BigPow2(63)) THEN I64(FALSE, mag) ELSE I64_MAX

\* Amount::from_float
from_float(value) == f64_as_i64(f64_round(f64_mul_scale(value)))

\* No Amount is being formatted
AmountIdle ==
    /\ scaledAmount = from_scaled(0)
    /\ overflow_checks = FALSE
    /\ shown = <<>>
    /\ reparsed = from_scaled(0)
    /\ amountPc = "idle"

\* No input file is read
CsvIdle ==
    /\ rows = <<>>
    /\ items = <<>>
    /\ cursor = 0
    /\ warnings = <<>>
    /\ exit_code = -1

(* ---------------------------- engine/mod.rs --------------------------- *)
is_unique_deposits_only(tx) ==
    tx \notin DOMAIN deposits

\* Engine::is_unique
is_unique(tx) ==
    tx \notin DOMAIN deposits /\ tx \notin withdrawal_ids

\* The value an apply_* function leaves behind: the three tables and the result
Outcome(cl, dep, wids, res) ==
    [clients |-> cl, deposits |-> dep, withdrawal_ids |-> wids, result |-> res]

apply_deposit_ignores_frozen(client, tx, amount) ==
    IF ~is_unique(tx)
    THEN Outcome(clients, deposits, withdrawal_ids, "DuplicateTxId")
    ELSE LET cl == entry_or_insert(clients, client) IN
         Outcome([cl EXCEPT ![client] = credit(@, amount)],
                 MapInsert(deposits, tx, DepositRecord_new(client, amount)),
                 withdrawal_ids, "Ok")

apply_deposit_skips_zero_credit(client, tx, amount) ==
    IF ~is_unique(tx)
    THEN Outcome(clients, deposits, withdrawal_ids, "DuplicateTxId")
    ELSE IF amount = 0
    THEN Outcome(clients,
                 MapInsert(deposits, tx, DepositRecord_new(client, amount)),
                 withdrawal_ids, "Ok")
    ELSE LET cl == entry_or_insert(clients, client) IN
         IF cl[client].frozen
         THEN Outcome(cl, deposits, withdrawal_ids, "AccountFrozen")
         ELSE Outcome([cl EXCEPT ![client] = credit(@, amount)],
                      MapInsert(deposits, tx, DepositRecord_new(client, amount)),
                      withdrawal_ids, "Ok")

apply_deposit_rejects_negative(client, tx, amount) ==
    IF ~is_unique(tx)
    THEN Outcome(clients, deposits, withdrawal_ids, "DuplicateTxId")
    ELSE IF amount < 0
    THEN Outcome(clients, deposits, withdrawal_ids, "NegativeAmount")
    ELSE LET cl == entry_or_insert(clients, client) IN
         IF cl[client].frozen
         THEN Outcome(cl, deposits, withdrawal_ids, "AccountFrozen")
         ELSE Outcome([cl EXCEPT ![client] = credit(@, amount)],
                      MapInsert(deposits, tx, DepositRecord_new(client, amount)),
                      withdrawal_ids, "Ok")

\* Engine::apply_deposit
apply_deposit(client, tx, amount) ==
    IF ~is_unique(tx)
    THEN Outcome(clients, deposits, withdrawal_ids, "DuplicateTxId")
    ELSE LET cl == entry_or_insert(clients, client) IN
         IF cl[client].frozen
         THEN Outcome(cl, deposits, withdrawal_ids, "AccountFrozen")
         ELSE Outcome([cl EXCEPT ![client] = credit(@, amount)],
                      MapInsert(deposits, tx, DepositRecord_new(client, amount)),
                      withdrawal_ids, "Ok")

apply_withdrawal_records_id_first(client, tx, amount) ==
    IF ~is_unique(tx)
    THEN Outcome(clients, deposits, withdrawal_ids, "DuplicateTxId")
    ELSE LET cl == entry_or_insert(clients, client) IN
         IF cl[client].frozen
         THEN Outcome(cl, deposits, withdrawal_ids, "AccountFrozen")
         ELSE IF cl[client].available < amount
         THEN Outcome(cl, deposits, withdrawal_ids \cup {tx}, "InsufficientFunds")
         ELSE Outcome([cl EXCEPT ![client] = debit(@, amount)],
                      deposits, withdrawal_ids \cup {tx}, "Ok")

apply_withdrawal_off_by_one(client, tx, amount) ==
    IF ~is_unique(tx)
    THEN Outcome(clients, deposits, withdrawal_ids, "DuplicateTxId")
    ELSE LET cl == entry_or_insert(clients, client) IN
         IF cl[client].frozen
         THEN Outcome(cl, deposits, withdrawal_ids, "AccountFrozen")
         ELSE IF cl[client].available <= amount
         THEN Outcome(cl, deposits, withdrawal_ids, "InsufficientFunds")
         ELSE Outcome([cl EXCEPT ![client] = debit(@, amount)],
                      deposits, withdrawal_ids \cup {tx}, "Ok")

apply_withdrawal_funds_before_frozen(client, tx, amount) ==
    IF ~is_unique(tx)
    THEN Outcome(clients, deposits, withdrawal_ids, "DuplicateTxId")
    ELSE LET cl == entry_or_insert(clients, client) IN
         IF cl[client].available < amount
         THEN Outcome(cl, deposits, withdrawal_ids, "InsufficientFunds")
         ELSE IF cl[client].frozen
         THEN Outcome(cl, deposits, withdrawal_ids, "AccountFrozen")
         ELSE Outcome([cl EXCEPT ![client] = debit(@, amount)],
                      deposits, withdrawal_ids \cup {tx}, "Ok")

apply_withdrawal_creates_on_success(client, tx, amount) ==
    IF ~is_unique(tx)
    THEN Outcome(clients, deposits, withdrawal_ids, "DuplicateTxId")
    ELSE LET cl == entry_or_insert(clients, client) IN
         IF cl[client].frozen
         THEN Outcome(clients, deposits, withdrawal_ids, "AccountFrozen")
         ELSE IF cl[client].available < amount
         THEN Outcome(clients, deposits, withdrawal_ids, "InsufficientFunds")
         ELSE Outcome([cl EXCEPT ![client] = debit(@, amount)],
                      deposits, withdrawal_ids \cup {tx}, "Ok")

\* Engine::apply_withdrawal
apply_withdrawal(client, tx, amount) ==
    IF ~is_unique(tx)
    THEN Outcome(clients, deposits, withdrawal_ids, "DuplicateTxId")
    ELSE LET cl == entry_or_insert(clients, client) IN
         IF cl[client].frozen
         THEN Outcome(cl, deposits, withdrawal_ids, "AccountFrozen")
         ELSE IF cl[client].available < amount
         THEN Outcome(cl, deposits, withdrawal_ids, "InsufficientFunds")
         ELSE Outcome([cl EXCEPT ![client] = debit(@, amount)],
                      deposits, withdrawal_ids \cup {tx}, "Ok")

apply_dispute_no_state_check(client, tx) ==
    IF tx \notin DOMAIN deposits
    THEN Outcome(clients, deposits, withdrawal_ids, "TxNotFound")
    ELSE LET record == deposits[tx] IN
         IF record.client # client
         THEN Outcome(clients, deposits, withdrawal_ids, "ClientMismatch")
         ELSE LET amount == record.amount
                  dep == [deposits EXCEPT ![tx].state = "Disputed"]
              IN  IF client \notin DOMAIN clients
                  THEN Outcome(clients, dep, withdrawal_ids, "ClientNotFound")
                  ELSE Outcome([clients EXCEPT ![client] = hold(@, amount)],
                               dep, withdrawal_ids, "Ok")

apply_dispute_requires_funds(client, tx) ==
    IF tx \notin DOMAIN deposits
    THEN Outcome(clients, deposits, withdrawal_ids, "TxNotFound")
    ELSE LET record == deposits[tx] IN
         IF record.client # client
         THEN Outcome(clients, deposits, withdrawal_ids, "ClientMismatch")
         ELSE IF record.state = "Disputed"
         THEN Outcome(clients, deposits, withdrawal_ids, "InvalidState")
         ELSE LET amount == record.amount
                  dep == [deposits EXCEPT ![tx].state = "Disputed"]
              IN  IF client \notin DOMAIN clients
                  THEN Outcome(clients, dep, withdrawal_ids, "ClientNotFound")
                  ELSE IF clients[client].available < amount
                  THEN Outcome(clients, deposits, withdrawal_ids, "InvalidState")
                  ELSE Outcome([clients EXCEPT ![client] = hold(@, amount)],
                               dep, withdrawal_ids, "Ok")

apply_dispute_rejects_frozen(client, tx) ==
    IF tx \notin DOMAIN deposits
    THEN Outcome(clients, deposits, withdrawal_ids, "TxNotFound")
    ELSE LET record == deposits[tx] IN
         IF record.client # client
         THEN Outcome(clients, deposits, withdrawal_ids, "ClientMismatch")
         ELSE IF record.state = "Disputed"
         THEN Outcome(clients, deposits, withdrawal_ids, "InvalidState")
         ELSE IF client \in DOMAIN clients /\ clients[client].frozen
         THEN Outcome(clients, deposits, withdrawal_ids, "AccountFrozen")
         ELSE LET amount == record.amount
                  dep == [deposits EXCEPT ![tx].state = "Disputed"]
              IN  IF client \notin DOMAIN clients
                  THEN Outcome(clients, dep, withdrawal_ids, "ClientNotFound")
                  ELSE Outcome([clients EXCEPT ![client] = hold(@, amount)],
                               dep, withdrawal_ids, "Ok")

apply_dispute_no_owner_check(client, tx) ==
    IF tx \notin DOMAIN deposits
    THEN Outcome(clients, deposits, withdrawal_ids, "TxNotFound")
    ELSE LET record == deposits[tx] IN
         IF record.state = "Disputed"
         THEN Outcome(clients, deposits, withdrawal_ids, "InvalidState")
         ELSE LET amount == record.amount
                  owner == record.client
                  dep == [deposits EXCEPT ![tx].state = "Disputed"]
              IN  IF owner \notin DOMAIN clients
                  THEN Outcome(clients, dep, withdrawal_ids, "ClientNotFound")
                  ELSE Outcome([clients EXCEPT ![owner] = hold(@, amount)],
                               dep, withdrawal_ids, "Ok")

\* Engine::apply_dispute
apply_dispute(client, tx) ==
    IF tx \notin DOMAIN deposits
    THEN Outcome(clients, deposits, withdrawal_ids, "TxNotFound")
    ELSE LET record == deposits[tx] IN
         IF record.client # client
         THEN Outcome(clients, deposits, withdrawal_ids, "ClientMismatch")
         ELSE IF record.state = "Disputed"
         THEN Outcome(clients, deposits, withdrawal_ids, "InvalidState")
         ELSE LET amount == record.amount
                  dep == [deposits EXCEPT ![tx].state = "Disputed"]
              IN  IF client \notin DOMAIN clients
                  THEN Outcome(clients, dep, withdrawal_ids, "ClientNotFound")
                  ELSE Outcome([clients EXCEPT ![client] = hold(@, amount)],
                               dep, withdrawal_ids, "Ok")

apply_resolve_clears_amount(client, tx) ==
    IF tx \notin DOMAIN deposits
    THEN Outcome(clients, deposits, withdrawal_ids, "TxNotFound")
    ELSE LET record == deposits[tx] IN
         IF record.client # client
         THEN Outcome(clients, deposits, withdrawal_ids, "ClientMismatch")
         ELSE IF record.state = "Ok"
         THEN Outcome(clients, deposits, withdrawal_ids, "InvalidState")
         ELSE LET amount == record.amount
                  dep == [deposits EXCEPT ![tx].state = "Ok", ![tx].amount = 0]
              IN  IF client \notin DOMAIN clients
                  THEN Outcome(clients, dep, withdrawal_ids, "ClientNotFound")
                  ELSE Outcome([clients EXCEPT ![client] = release(@, amount)],
                               dep, withdrawal_ids, "Ok")

\* Engine::apply_resolve
apply_resolve(client, tx) ==
    IF tx \notin DOMAIN deposits
    THEN Outcome(clients, deposits, withdrawal_ids, "TxNotFound")
    ELSE LET record == deposits[tx] IN
         IF record.client # client
         THEN Outcome(clients, deposits, withdrawal_ids, "ClientMismatch")
         ELSE IF record.state = "Ok"
         THEN Outcome(clients, deposits, withdrawal_ids, "InvalidState")
         ELSE LET amount == record.amount
                  dep == [deposits EXCEPT ![tx].state = "Ok"]
              IN  IF client \notin DOMAIN clients
                  THEN Outcome(clients, dep, withdrawal_ids, "ClientNotFound")
                  ELSE Outcome([clients EXCEPT ![client] = release(@, amount)],
                               dep, withdrawal_ids, "Ok")

apply_chargeback_no_state_check(client, tx) ==
    IF tx \notin DOMAIN deposits
    THEN Outcome(clients, deposits, withdrawal_ids, "TxNotFound")
    ELSE LET record == deposits[tx] IN
         IF record.client # client
         THEN Outcome(clients, deposits, withdrawal_ids, "ClientMismatch")
         ELSE LET amount == record.amount IN
              IF client \notin DOMAIN clients
              THEN Outcome(clients, deposits, withdrawal_ids, "ClientNotFound")
              ELSE Outcome([clients EXCEPT ![client] = freeze(remove_held(@, amount))],
                           MapRemove(deposits, tx), withdrawal_ids, "Ok")

apply_chargeback_reserves_id(client, tx) ==
    IF tx \notin DOMAIN deposits
    THEN Outcome(clients, deposits, withdrawal_ids, "TxNotFound")
    ELSE LET record == deposits[tx] IN
         IF record.client # client
         THEN Outcome(clients, deposits, withdrawal_ids, "ClientMismatch")
         ELSE IF record.state = "Ok"
         THEN Outcome(clients, deposits, withdrawal_ids, "InvalidState")
         ELSE LET amount == record.amount IN
              IF client \notin DOMAIN clients
              THEN Outcome(clients, deposits, withdrawal_ids, "ClientNotFound")
              ELSE Outcome([clients EXCEPT ![client] = freeze(remove_held(@, amount))],
                           MapRemove(deposits, tx), withdrawal_ids \cup {tx}, "Ok")

\* Engine::apply_chargeback
apply_chargeback(client, tx) ==
    IF tx \notin DOMAIN deposits
    THEN Outcome(clients, deposits, withdrawal_ids, "TxNotFound")
    ELSE LET record == deposits[tx] IN
         IF record.client # client
         THEN Outcome(clients, deposits, withdrawal_ids, "ClientMismatch")
         ELSE IF record.state = "Ok"
         THEN Outcome(clients, deposits, withdrawal_ids, "InvalidState")
         ELSE LET amount == record.amount IN
              IF client \notin DOMAIN clients
              THEN Outcome(clients, deposits, withdrawal_ids, "ClientNotFound")
              ELSE Outcome([clients EXCEPT ![client] = freeze(remove_held(@, amount))],
                           MapRemove(deposits, tx), withdrawal_ids, "Ok")

\* model.rs Transaction: the five variants (amount is 0 where the variant has none)
Tx(kind, client, tx, amount) ==
    [kind |-> kind, client |-> client, tx |-> tx, amount |-> amount]

NoTx == Tx("none", 0, 0, 0)

\* The three tables of the engine at the moment Dispute { client, tx } is applied
Snapshot(client, tx, cl, dep, wids) ==
    [client |-> client, tx |-> tx, clients |-> cl, deposits |-> dep, withdrawal_ids |-> wids]

NoSnapshot == Snapshot(0, 0, <<>>, <<>>, {})

\* Engine::apply: route by variant
apply(t) ==
    CASE t.kind = "deposit"    -> apply_deposit(t.client, t.tx, t.amount)
      [] t.kind = "withdrawal" -> apply_withdrawal(t.client, t.tx, t.amount)
      [] t.kind = "dispute"    -> apply_dispute(t.client, t.tx)
      [] t.kind = "resolve"    -> apply_resolve(t.client, t.tx)
      [] t.kind = "chargeback" -> apply_chargeback(t.client, t.tx)

\* DepositOperationError::ClientMismatch(operation, tx, expected, actual)
ClientMismatch(op, tx, expected, actual) ==
    [op |-> op, tx |-> tx, expected |-> expected, actual |-> actual]

NoDetail == ClientMismatch("none", 0, 0, 0)

mismatch_error_swapped(t) ==
    ClientMismatch(t.kind, t.tx, t.client, deposits[t.tx].client)

\* `ClientMismatch(Dispute, tx, record.client, client)`, alike in apply_resolve
\* and apply_chargeback
mismatch_error(t) ==
    ClientMismatch(t.kind, t.tx, deposits[t.tx].client, t.client)

\* Per client: whether a Deposit or Withdrawal naming it passed the
\* duplicate-id check (seen), the sums of its accepted deposits (dep) and
\* withdrawals (wd) and of its charged-back deposits (cb), and whether a
\* Chargeback of the client succeeded (charged)
NewLedger ==
    [c \in ClientIds |->
        [seen |-> FALSE, dep |-> 0, wd |-> 0, cb |-> 0, charged |-> FALSE]]

\* The ledger after apply(t) returned res
LedgerAfter(t, res) ==
    LET c == t.client
        unseen == t.tx \notin DOMAIN deposits /\ t.tx \notin withdrawal_ids
    IN  IF t.kind = "deposit"
        THEN [ledger EXCEPT ![c].seen = @ \/ unseen,
                            ![c].dep = IF res = "Ok" THEN @ + t.amount ELSE @]
        ELSE IF t.kind = "withdrawal"
        THEN [ledger EXCEPT ![c].seen = @ \/ unseen,
                            ![c].wd = IF res = "Ok" THEN @ + t.amount ELSE @]
        ELSE IF t.kind = "chargeback" /\ res = "Ok"
        THEN [ledger EXCEPT ![c].cb = @ + deposits[t.tx].amount,
                            ![c].charged = TRUE]
        ELSE ledger

NoCredit == [stored |-> FALSE, client |-> 0, amount |-> 0]

\* What the deposits accepted so far credited under each id still stored
CreditedAfter(t, res) ==
    IF t.kind = "deposit" /\ res = "Ok"
    THEN [credited EXCEPT ![t.tx] = [stored |-> TRUE, client |-> t.client,
                                     amount |-> t.amount]]
    ELSE IF t.kind = "chargeback" /\ res = "Ok"
    THEN [credited EXCEPT ![t.tx] = NoCredit]
    ELSE credited

(* ------------------------------ actions ------------------------------- *)
\* Engine::new
EngineNew ==
    /\ clients = <<>>
    /\ deposits = <<>>
    /\ withdrawal_ids = {}
    /\ lastTx = NoTx
    /\ result = "None"
    /\ steps = 0
    /\ sumDeposits = 0
    /\ sumWithdrawals = 0
    /\ sumChargebacks = 0
    /\ accepted = [t \in TxIds |-> 0]
    /\ chargedBack = {}
    /\ withdrawn = {}
    /\ resolved = {}
    /\ beforeDispute = NoSnapshot
    /\ detail = NoDetail
    /\ ledger = NewLedger
    /\ credited = [t \in TxIds |-> NoCredit]
    /\ negativeSeen = FALSE

\* A fresh engine whose apply is called directly: no producer, no channel, no run
Init ==
    /\ EngineNew
    /\ transactions = <<>>
    /\ queue = <<>>
    /\ sent = 0
    /\ producer = "idle"
    /\ receiver = "open"
    /\ runner = "idle"
    /\ applied = <<>>
    /\ outcomes = <<>>
    /\ closedWith = -1
    /\ AmountIdle
    /\ CsvIdle

\* One call of Engine::apply(t): the tables and the result it leaves
Commit(t, out) ==
    /\ steps < MaxSteps \/ runner = "running"
    /\ UNCHANGED <<amountVars, csvVars>>
    /\ detail' = IF out.result = "ClientMismatch" THEN mismatch_error(t) ELSE NoDetail
    /\ ledger' = LedgerAfter(t, out.result)
    /\ credited' = CreditedAfter(t, out.result)
    /\ negativeSeen' = (negativeSeen \/ (t.kind \in {"deposit", "withdrawal"} /\ t.amount < 0))
    /\ steps' = steps + 1
    /\ clients' = out.clients
    /\ deposits' = out.deposits
    /\ withdrawal_ids' = out.withdrawal_ids
    /\ result' = out.result
    /\ lastTx' = t
    /\ beforeDispute' =
          IF /\ t.kind = "dispute"
             /\ t.tx \in DOMAIN deposits
             /\ deposits[t.tx].client = t.client
             /\ deposits[t.tx].state = "Ok"
          THEN Snapshot(t.client, t.tx, clients, deposits, withdrawal_ids)
          ELSE IF /\ t.kind = "resolve"
                  /\ lastTx.kind = "dispute"
                  /\ beforeDispute.tx = t.tx
                  /\ beforeDispute.client = t.client
          THEN beforeDispute
          ELSE NoSnapshot

Deposit(client, tx, amount) ==
    LET t == Tx("deposit", client, tx, amount)
        out == apply(t)
    IN  /\ Commit(t, out)
        /\ sumDeposits' = IF out.result = "Ok" THEN sumDeposits + amount ELSE sumDeposits
        /\ accepted' = IF out.result = "Ok" THEN [accepted EXCEPT ![tx] = @ + 1] ELSE accepted
        /\ UNCHANGED <<sumWithdrawals, sumChargebacks, chargedBack, withdrawn, resolved>>

Withdrawal(client, tx, amount) ==
    LET t == Tx("withdrawal", client, tx, amount)
        out == apply(t)
    IN  /\ Commit(t, out)
        /\ sumWithdrawals' = IF out.result = "Ok" THEN sumWithdrawals + amount ELSE sumWithdrawals
        /\ accepted' = IF out.result = "Ok" THEN [accepted EXCEPT ![tx] = @ + 1] ELSE accepted
        /\ withdrawn' = IF out.result = "Ok" THEN withdrawn \cup {tx} ELSE withdrawn
        /\ UNCHANGED <<sumDeposits, sumChargebacks, chargedBack, resolved>>

Dispute(client, tx) ==
    LET t == Tx("dispute", client, tx, 0)
        out == apply(t)
    IN  /\ Commit(t, out)
        /\ UNCHANGED <<sumDeposits, sumWithdrawals, sumChargebacks,
                       accepted, chargedBack, withdrawn, resolved>>

Resolve(client, tx) ==
    LET t == Tx("resolve", client, tx, 0)
        out == apply(t)
    IN  /\ Commit(t, out)
        /\ resolved' = IF out.result = "Ok" THEN resolved \cup {tx} ELSE resolved
        /\ UNCHANGED <<sumDeposits, sumWithdrawals, sumChargebacks,
                       accepted, chargedBack, withdrawn>>

Chargeback(client, tx) ==
    LET t == Tx("chargeback", client, tx, 0)
        out == apply(t)
    IN  /\ Commit(t, out)
        /\ sumChargebacks' = IF out.result = "Ok"
                             THEN sumChargebacks + deposits[tx].amount
                             ELSE sumChargebacks
        /\ chargedBack' = IF out.result = "Ok" THEN chargedBack \cup {tx} ELSE chargedBack
        /\ UNCHANGED <<sumDeposits, sumWithdrawals, accepted, withdrawn, resolved>>

Next ==
    \/ \E c \in ClientIds, t \in TxIds, a \in Amounts : Deposit(c, t, a) /\ UNCHANGED driverVars
    \/ \E c \in ClientIds, t \in TxIds, a \in Amounts : Withdrawal(c, t, a) /\ UNCHANGED driverVars
    \/ \E c \in ClientIds, t \in TxIds : Dispute(c, t) /\ UNCHANGED driverVars
    \/ \E c \in ClientIds, t \in TxIds : Resolve(c, t) /\ UNCHANGED driverVars
    \/ \E c \in ClientIds, t \in TxIds : Chargeback(c, t) /\ UNCHANGED driverVars

Spec == Init /\ [][Next]_vars

(* -------------------- main.rs: producer, channel, run ------------------ *)
\* What the producer task can be given to send: deposits and withdrawals of
\* one amount, and the three dispute operations
StreamTxs ==
    {Tx(k, c, t, MaxAmount) : k \in {"deposit", "withdrawal"}, c \in ClientIds, t \in TxIds}
    \cup {Tx(k, c, t, 0) : k \in {"dispute", "resolve", "chargeback"}, c \in ClientIds, t \in TxIds}

\* The array `transactions` of the producer task: any list of at most MaxStream
StreamInputs == UNION {[1..n -> StreamTxs] : n \in 0..MaxStream}

producer_item_reversed(i) ==
    transactions[Len(transactions) + 1 - i]

\* `for tx in transactions`: the i-th transaction the producer sends
producer_item(i) ==
    transactions[i]

stream_ended_on_close(q, prod) ==
    prod \in {"done", "panicked"}

\* stream.next() yields None: every sender is dropped and the channel is empty
stream_ended(q, prod) ==
    q = <<>> /\ prod \in {"done", "panicked"}

run_after_apply_propagates(res) ==
    IF res = "Ok" THEN "running" ELSE "returned"

\* `let _ = self.apply(tx);`: the result is discarded and the loop goes on
run_after_apply(res) ==
    "running"

\* Engine::new, then the channel, the spawned producer and engine.run(...)
InitRun ==
    /\ EngineNew
    /\ transactions \in StreamInputs
    /\ queue = <<>>
    /\ sent = 0
    /\ producer = "sending"
    /\ receiver = "open"
    /\ runner = "running"
    /\ applied = <<>>
    /\ outcomes = <<>>
    /\ closedWith = -1
    /\ AmountIdle
    /\ CsvIdle

ProducerSend_unbounded ==
    /\ producer = "sending"
    /\ sent < Len(transactions)
    /\ IF receiver = "dropped"
       THEN /\ producer' = "panicked"
            /\ UNCHANGED <<queue, sent>>
       ELSE /\ queue' = Append(queue, producer_item(sent + 1))
            /\ sent' = sent + 1
            /\ UNCHANGED producer
    /\ UNCHANGED <<transactions, receiver, runner, applied, outcomes, closedWith>>
    /\ UNCHANGED <<engineVars, amountVars, csvVars>>

\* tx_sender.send(tx).await.unwrap(): waits while the channel is full, panics
\* when the receiver is gone
ProducerSend ==
    /\ producer = "sending"
    /\ sent < Len(transactions)
    /\ IF receiver = "dropped"
       THEN /\ producer' = "panicked"
            /\ UNCHANGED <<queue, sent>>
       ELSE /\ Len(queue) < ChannelCapacity
            /\ queue' = Append(queue, producer_item(sent + 1))
            /\ sent' = sent + 1
            /\ UNCHANGED producer
    /\ UNCHANGED <<transactions, receiver, runner, applied, outcomes, closedWith>>
    /\ UNCHANGED <<engineVars, amountVars, csvVars>>

\* The producer's loop is over: the task ends and drops tx_sender
ProducerFinish ==
    /\ producer = "sending"
    /\ sent = Len(transactions)
    /\ producer' = "done"
    /\ closedWith' = Len(queue)
    /\ UNCHANGED <<transactions, queue, sent, receiver, runner, applied, outcomes>>
    /\ UNCHANGED <<engineVars, amountVars, csvVars>>

\* Engine::apply(t) as run calls it
ApplyTx(t) ==
    CASE t.kind = "deposit"    -> Deposit(t.client, t.tx, t.amount)
      [] t.kind = "withdrawal" -> Withdrawal(t.client, t.tx, t.amount)
      [] t.kind = "dispute"    -> Dispute(t.client, t.tx)
      [] t.kind = "resolve"    -> Resolve(t.client, t.tx)
      [] t.kind = "chargeback" -> Chargeback(t.client, t.tx)

\* One turn of the loop of Engine::run: stream.next() yields Some(tx), apply it
RunNext ==
    /\ runner = "running"
    /\ queue # <<>>
    /\ ApplyTx(Head(queue))
    /\ queue' = Tail(queue)
    /\ applied' = Append(applied, Head(queue))
    /\ outcomes' = Append(outcomes, result')
    /\ runner' = run_after_apply(result')
    /\ receiver' = IF runner' = "returned" THEN "dropped" ELSE receiver
    /\ UNCHANGED <<transactions, sent, producer, closedWith>>

\* stream.next() yields None: run returns and its stream is dropped
RunReturn ==
    /\ runner = "running"
    /\ stream_ended(queue, producer)
    /\ runner' = "returned"
    /\ receiver' = "dropped"
    /\ UNCHANGED <<transactions, queue, sent, producer, applied, outcomes, closedWith>>
    /\ UNCHANGED <<engineVars, amountVars, csvVars>>

NextRun ==
    \/ ProducerSend
    \/ ProducerFinish
    \/ RunNext
    \/ RunReturn

SpecRun == InitRun /\ [][NextRun]_vars

\* The i-th transaction of a long array: the five variants in turn, over the
\* clients and the ids
BurstTx(i) ==
    LET kind == <<"deposit", "withdrawal", "dispute", "resolve", "chargeback">>[1 + (i % 5)]
    IN  Tx(kind, 1 + (i % MaxClient), 1 + (i % MaxTx),
           IF kind \in {"deposit", "withdrawal"} THEN MaxAmount ELSE 0)

\* The array `transactions` when it is longer than the channel: its first n
\* items, for every n up to MaxBurst
BurstInputs == {[i \in 1..n |-> BurstTx(i)] : n \in 0..MaxBurst}

\* As InitRun, with an array that can fill the channel
InitBurst ==
    /\ EngineNew
    /\ transactions \in BurstInputs
    /\ queue = <<>>
    /\ sent = 0
    /\ producer = "sending"
    /\ receiver = "open"
    /\ runner = "running"
    /\ applied = <<>>
    /\ outcomes = <<>>
    /\ closedWith = -1
    /\ AmountIdle
    /\ CsvIdle

SpecBurst == InitBurst /\ [][NextRun]_vars

\* Both tasks are polled whenever they can make progress
FairSpecRun ==
    /\ SpecRun
    /\ WF_vars(ProducerSend)
    /\ WF_vars(ProducerFinish)
    /\ WF_vars(RunNext)
    /\ WF_vars(RunReturn)

(* ------------------- amount.rs: format and parse back ------------------ *)
\* The Amounts put through Display: every scaled value up to MaxScaled either
\* side of zero, values around one unit, and values at the ends of the i64
\* and f64 ranges
AmountInputs ==
    {from_scaled(n) : n \in -MaxScaled..MaxScaled}
    \cup {from_scaled(s * n) : s \in {-1, 1},
                               n \in {SCALE - 1, SCALE, SCALE + 1, 502500, 12345678}}
    \cup {I64(s, m) : s \in BOOLEAN,
                      m \in {BigDec(BigPow2(53)), BigPow2(53), BigInc(BigPow2(53)),
                             BigInc(BigPow2(62)), BigDec(BigPow2(63))}}
    \cup {I64_MIN}

\* An Amount built by from_scaled, in a build with or without overflow checks
InitAmount ==
    /\ EngineNew
    /\ transactions = <<>>
    /\ queue = <<>>
    /\ sent = 0
    /\ producer = "idle"
    /\ receiver = "open"
    /\ runner = "idle"
    /\ applied = <<>>
    /\ outcomes = <<>>
    /\ closedWith = -1
    /\ CsvIdle
    /\ scaledAmount \in AmountInputs
    /\ overflow_checks \in BOOLEAN
    /\ shown = <<>>
    /\ reparsed = from_scaled(0)
    /\ amountPc = "new"

\* amount.to_string()
FormatAmount ==
    /\ amountPc = "new"
    /\ shown' = Display(scaledAmount, overflow_checks)
    /\ amountPc' = IF shown' = Panic THEN "panicked" ELSE "shown"
    /\ UNCHANGED <<scaledAmount, overflow_checks, reparsed>>
    /\ UNCHANGED <<engineVars, driverVars, csvVars>>

\* The text read back as an amount field: parsed as f64, then from_float
ParseAmount ==
    /\ amountPc = "shown"
    /\ LET value == parse_f64(shown) IN
       IF value.kind = "err"
       THEN amountPc' = "rejected" /\ UNCHANGED reparsed
       ELSE amountPc' = "parsed" /\ reparsed' = from_float(value)
    /\ UNCHANGED <<scaledAmount, overflow_checks, shown>>
    /\ UNCHANGED <<engineVars, driverVars, csvVars>>

NextAmount ==
    \/ FormatAmount
    \/ ParseAmount

SpecAmount == InitAmount /\ [][NextAmount]_vars

(* ------------------------------- csv.rs ------------------------------- *)
\* One data row of the input file. malformed: the row does not deserialize
\* into InputRow (a field of the wrong type, a wrong number of fields);
\* amount is the text of the amount field, empty when the field is empty
Row(malformed, type, client, tx, amount) ==
    [malformed |-> malformed, type |-> type, client |-> client, tx |-> tx,
     amount |-> amount]

\* The rows a file is made of
RowKinds ==
    {Row(FALSE, "deposit", 1, 1, <<"1", ".", "5">>),
     Row(FALSE, "withdrawal", 1, MaxTx, <<"0", ".", "5">>),
     Row(FALSE, "dispute", 1, 1, <<>>),
     Row(FALSE, "resolve", 1, 1, <<>>),
     Row(FALSE, "chargeback", 1, 1, <<"1", ".", "5">>),
     Row(FALSE, "deposit", 1, 1, <<>>),
     Row(FALSE, "withdrawal", 1, MaxTx, <<>>),
     Row(FALSE, "transfer", 1, 1, <<"1", ".", "5">>),
     Row(FALSE, "deposit", MaxClient, MaxTx, <<"+", "1", ".", "2", "3", "4", "5", "6", "e", "0">>),
     Row(TRUE, "deposit", 1, 1, <<"1", ".", "5">>)}

RowInputs == UNION {[1..n -> RowKinds] : n \in 0..MaxRows}

\* The scaled value of an Amount, for the amounts the engine is given here
RECURSIVE BigToInt(_)
BigToInt(x) == IF x = <<>> THEN 0 ELSE Head(x) + SCALE * BigToInt(Tail(x))

i64_to_int(n) == IF n.neg THEN -BigToInt(n.mag) ELSE BigToInt(n.mag)

\* Result<Transaction, CsvError>
ItemOk(t) == [ok |-> TRUE, tx |-> t, error |-> "None", line |-> 0]

ItemErr(error, line) == [ok |-> FALSE, tx |-> NoTx, error |-> error, line |-> line]

line_of_zero_based(idx) == idx + 1

\* `let line = idx + 2; // 1-indexed, skip header`
line_of(idx) == idx + 2

\* The closure of read_transactions: the item made of the idx-th record
read_transaction(idx, row) ==
    LET line == line_of(idx) IN
    IF row.malformed \/ (row.amount # <<>> /\ parse_f64(row.amount).kind = "err")
    THEN ItemErr("Parse", line)
    ELSE IF row.type \in {"deposit", "withdrawal"}
    THEN IF row.amount = <<>>
         THEN ItemErr("MissingAmount", line)
         ELSE ItemOk(Tx(row.type, row.client, row.tx,
                        i64_to_int(from_float(parse_f64(row.amount)))))
    ELSE IF row.type \in {"dispute", "resolve", "chargeback"}
    THEN ItemOk(Tx(row.type, row.client, row.tx, 0))
    ELSE ItemErr("UnrecognizedType", line)

\* read_transactions: `.enumerate().map(...)` over the records of the file
read_transactions(file) ==
    [k \in 1..Len(file) |-> read_transaction(k - 1, file[k])]

\* The binary on an input file: the reader task over read_transactions, the
\* channel, and engine.run
InitCsv ==
    /\ EngineNew
    /\ AmountIdle
    /\ transactions = <<>>
    /\ queue = <<>>
    /\ sent = 0
    /\ producer = "sending"
    /\ receiver = "open"
    /\ runner = "running"
    /\ applied = <<>>
    /\ outcomes = <<>>
    /\ closedWith = -1
    /\ rows \in RowInputs
    /\ items = read_transactions(rows)
    /\ cursor = 0
    /\ warnings = <<>>
    /\ exit_code = -1

\* The reader task takes the next item: a transaction is sent to the engine,
\* an error is written to the diagnostic stream and the loop goes on
CsvReadRow ==
    /\ producer = "sending"
    /\ cursor < Len(items)
    /\ LET item == items[cursor + 1] IN
       IF item.ok
       THEN /\ Len(queue) < ChannelCapacity
            /\ queue' = Append(queue, item.tx)
            /\ sent' = sent + 1
            /\ UNCHANGED warnings
       ELSE /\ warnings' = Append(warnings, [line |-> item.line, error |-> item.error])
            /\ UNCHANGED <<queue, sent>>
    /\ cursor' = cursor + 1
    /\ UNCHANGED <<transactions, producer, receiver, runner, applied, outcomes,
                   closedWith, rows, items, exit_code>>
    /\ UNCHANGED <<engineVars, amountVars>>

\* The iterator is exhausted: the reader task ends and drops the sender
CsvClose ==
    /\ producer = "sending"
    /\ cursor = Len(items)
    /\ producer' = "done"
    /\ closedWith' = Len(queue)
    /\ UNCHANGED <<transactions, queue, sent, receiver, runner, applied, outcomes>>
    /\ UNCHANGED <<engineVars, amountVars, csvVars>>

\* run has returned: the accounts are written and the process exits with 0
CsvExit ==
    /\ runner = "returned"
    /\ exit_code = -1
    /\ exit_code' = 0
    /\ UNCHANGED <<rows, items, cursor, warnings>>
    /\ UNCHANGED <<engineVars, driverVars, amountVars>>

NextCsv ==
    \/ CsvReadRow
    \/ CsvClose
    \/ RunNext
    \/ RunReturn
    \/ CsvExit

SpecCsv == InitCsv /\ [][NextCsv]_vars

\* Both tasks are polled whenever they can make progress
FairSpecCsv ==
    /\ SpecCsv
    /\ WF_vars(CsvReadRow)
    /\ WF_vars(CsvClose)
    /\ WF_vars(RunNext)
    /\ WF_vars(RunReturn)
    /\ WF_vars(CsvExit)

(* ------------------------- derived quantities ------------------------- *)
RECURSIVE Sum(_, _)
\* the sum of f[x] over the finite set S
Sum(f, S) ==
    IF S = {} THEN 0
    ELSE LET x == CHOOSE y \in S : TRUE IN f[x] + Sum(f, S \ {x})

IsError(r) == r \notin {"Ok", "None"}

\* What a caller can observe of client c: its balances and flag, an absent
\* account reading as the all-zero unfrozen account
AccountView(cl, c) ==
    IF c \in DOMAIN cl
    THEN [available |-> cl[c].available, held |-> cl[c].held, frozen |-> cl[c].frozen]
    ELSE [available |-> 0, held |-> 0, frozen |-> FALSE]

\* Sum over all clients of total()
TotalAll == Sum([c \in DOMAIN clients |-> total(clients[c])], DOMAIN clients)

\* The stored deposits of client c that are under dispute
DisputedOf(c) == {t \in DOMAIN deposits : deposits[t].client = c /\ deposits[t].state = "Disputed"}

HeldByRecords(c) == Sum([t \in DOMAIN deposits |-> deposits[t].amount], DisputedOf(c))

LifecycleKinds == {"dispute", "resolve", "chargeback"}
FundsKinds == {"deposit", "withdrawal"}

(* ------------------------------- claims ------------------------------- *)

\* C1: atomicity of apply. Whenever apply returns an error, every account's
\* available, held and frozen (an account that did not exist reading as zero
\* and unfrozen), every deposit record, the key set of the deposits map and
\* the withdrawal_ids set are the same after the call as before it.
C1_Atomicity ==
    [][IsError(result') =>
          /\ \A c \in DOMAIN clients : c \in DOMAIN clients' /\ clients'[c] = clients[c]
          /\ \A c \in ClientIds : AccountView(clients', c) = AccountView(clients, c)
          /\ deposits' = deposits
          /\ withdrawal_ids' = withdrawal_ids]_vars

\* C1 witness: a withdrawal was refused for insufficient funds on an account
\* that holds money while a deposit is stored
C1_Witness ==
    /\ result = "InsufficientFunds"
    /\ lastTx.client \in DOMAIN clients
    /\ clients[lastTx.client].available > 0
    /\ DOMAIN deposits # {}

\* C2: a failed transaction is invisible in the output. Whenever apply returns
\* an error, the collection of accounts yielded by clients() (the set of client
\* ids and each account's fields) is the same after the call as before it.
C2_FailedTxInvisible ==
    [][IsError(result') => clients' = clients]_vars

\* C3: monetary conservation. The sum over all clients of total() equals the
\* amounts of the applied deposits minus those of the applied withdrawals minus
\* those of the applied chargebacks.
C3_Conservation ==
    TotalAll = sumDeposits - sumWithdrawals - sumChargebacks

\* C3 witness: a deposit, a withdrawal and a chargeback of positive amounts
\* have all been applied
C3_Witness ==
    /\ sumDeposits > 0
    /\ sumWithdrawals > 0
    /\ sumChargebacks > 0

\* C4: with non-negative amounts, held(c) >= 0 for every client c.
C4_HeldNonNegative ==
    \A c \in DOMAIN clients : clients[c].held >= 0

\* C4 witness: a chargeback has just removed held funds from a client that
\* still has other funds held
C4_Witness ==
    /\ lastTx.kind = "chargeback"
    /\ result = "Ok"
    /\ sumChargebacks > 0
    /\ clients[lastTx.client].held > 0

\* C5: held(c) is exactly the sum of the amounts of the stored deposit records
\* of client c that are in state Disputed; Ok records contribute nothing.
C5_HeldIsDisputedSum ==
    \A c \in DOMAIN clients : clients[c].held = HeldByRecords(c)

\* C5 witness: a client has both a Disputed and an Ok record of positive amount
\* and a resolve has just been applied
C5_Witness ==
    /\ lastTx.kind = "resolve"
    /\ result = "Ok"
    /\ \E t1, t2 \in DOMAIN deposits :
          /\ deposits[t1].client = lastTx.client
          /\ deposits[t2].client = lastTx.client
          /\ deposits[t1].state = "Disputed" /\ deposits[t1].amount > 0
          /\ deposits[t2].state = "Ok" /\ deposits[t2].amount > 0

\* C6: once frozen(c) is true it stays true, and every Deposit or Withdrawal
\* targeting c returns DuplicateTxId when the id is already known and
\* AccountFrozen otherwise, leaves the account of c unchanged and adds no
\* deposit record and no withdrawal id.
C6_FrozenRejectsFunds ==
    [][\A c \in DOMAIN clients :
          clients[c].frozen =>
             /\ c \in DOMAIN clients' /\ clients'[c].frozen
             /\ (lastTx'.kind \in FundsKinds /\ lastTx'.client = c) =>
                   /\ result' = IF lastTx'.tx \in DOMAIN deposits \cup withdrawal_ids
                                THEN "DuplicateTxId" ELSE "AccountFrozen"
                   /\ clients'[c] = clients[c]
                   /\ deposits' = deposits
                   /\ withdrawal_ids' = withdrawal_ids]_vars

\* C6 witness: a deposit to a frozen account that still has money was refused
C6_Witness ==
    /\ lastTx.kind = "deposit"
    /\ lastTx.amount > 0
    /\ result = "AccountFrozen"
    /\ clients[lastTx.client].frozen
    /\ clients[lastTx.client].available > 0

\* C7: transaction-id uniqueness over the engine's lifetime. No TxId is
\* accepted by more than one Deposit or Withdrawal.
C7_TxIdAcceptedOnce ==
    \A t \in TxIds : accepted[t] <= 1

\* C8: the key set of the deposits map and the withdrawal_ids set are disjoint.
C8_IdSetsDisjoint ==
    DOMAIN deposits \cap withdrawal_ids = {}

\* C8 witness: a deposit or withdrawal was refused as a duplicate while both
\* a stored deposit and a known withdrawal id exist
C8_Witness ==
    /\ DOMAIN deposits # {}
    /\ withdrawal_ids # {}
    /\ lastTx.kind \in FundsKinds
    /\ result = "DuplicateTxId"

\* C9: chargeback is terminal. Once a chargeback of tx has succeeded, every
\* later Dispute, Resolve or Chargeback naming tx returns TxNotFound.
C9_ChargebackTerminal ==
    [][(lastTx'.kind \in LifecycleKinds /\ lastTx'.tx \in chargedBack)
          => result' = "TxNotFound"]_vars

\* C10: once a Withdrawal with id tx has succeeded, every later Deposit or
\* Withdrawal with the same tx, for any client and amount, returns DuplicateTxId.
C10_WithdrawalIdReserved ==
    [][(lastTx'.kind \in FundsKinds /\ lastTx'.tx \in withdrawn)
          => result' = "DuplicateTxId"]_vars

\* C10 witness: a deposit by another client reusing the id of an earlier
\* successful withdrawal was refused
C10_Witness ==
    /\ lastTx.kind = "deposit"
    /\ lastTx.tx \in withdrawn
    /\ result = "DuplicateTxId"
    /\ \E c \in DOMAIN clients : c # lastTx.client /\ clients[c].available > 0

\* The dispute state of the deposit stored under tx; a charged-back or never
\* deposited id has no record
RecState(dep, tx) ==
    IF tx \in DOMAIN dep THEN dep[tx].state ELSE "Absent"

\* The record under lastTx'.tx is stored and lastTx' is sent by its owner
OwnerOp(kind) ==
    /\ lastTx'.kind = kind
    /\ lastTx'.tx \in DOMAIN deposits
    /\ deposits[lastTx'.tx].client = lastTx'.client

TablesUnchanged ==
    /\ clients' = clients
    /\ deposits' = deposits
    /\ withdrawal_ids' = withdrawal_ids

\* C11: deposit dispute state machine. The state of the record under any id
\* changes only by Absent -> Ok (successful Deposit), Ok -> Disputed
\* (successful Dispute), Disputed -> Ok (successful Resolve) and
\* Disputed -> Absent (successful Chargeback), and every successful operation
\* makes exactly its transition; a record is never evicted from Ok.
C11_DisputeStateMachine ==
    [][\A t \in TxIds :
          LET s1 == RecState(deposits, t)
              s2 == RecState(deposits', t)
              k  == lastTx'.kind
              step == <<s1, k, s2>>
          IN  /\ s1 # s2 =>
                    /\ lastTx'.tx = t
                    /\ result' = "Ok"
                    /\ step \in {<<"Absent", "deposit", "Ok">>,
                                 <<"Ok", "dispute", "Disputed">>,
                                 <<"Disputed", "resolve", "Ok">>,
                                 <<"Disputed", "chargeback", "Absent">>}
              /\ (lastTx'.tx = t /\ result' = "Ok" /\ k \in LifecycleKinds \cup {"deposit"})
                    => s1 # s2]_vars

\* C11 witness: a deposit that was disputed and resolved has just been
\* disputed again
C11_Witness ==
    /\ lastTx.kind = "dispute"
    /\ result = "Ok"
    /\ lastTx.tx \in resolved
    /\ lastTx.tx \notin chargedBack
    /\ RecState(deposits, lastTx.tx) = "Disputed"

\* C13: idempotence of lifecycle operations. A Dispute on a Disputed deposit,
\* and a Resolve or Chargeback on an Ok deposit, leave the engine state
\* unchanged and, sent by the owner of the deposit, return InvalidState
\* (sent by another client they return ClientMismatch).
C13_LifecycleIdempotent ==
    [][(/\ lastTx'.kind \in LifecycleKinds
        /\ lastTx'.tx \in DOMAIN deposits
        /\ deposits[lastTx'.tx].state =
              (IF lastTx'.kind = "dispute" THEN "Disputed" ELSE "Ok"))
          => /\ TablesUnchanged
             /\ result' = IF deposits[lastTx'.tx].client = lastTx'.client
                          THEN "InvalidState" ELSE "ClientMismatch"]_vars

\* C13 witness: a second dispute of a deposit already under dispute was refused
C13_Witness ==
    /\ lastTx.kind = "dispute"
    /\ result = "InvalidState"
    /\ RecState(deposits, lastTx.tx) = "Disputed"
    /\ clients[lastTx.client].held > 0

\* C14: withdrawal boundary. For an unfrozen account and a fresh id,
\* Withdrawal(c, tx, a) succeeds iff a <= available(c); on success available
\* decreases by exactly a, held is unchanged and tx joins withdrawal_ids;
\* otherwise it returns InsufficientFunds and nothing is withdrawn.
C14_WithdrawalBoundary ==
    [][(/\ lastTx'.kind = "withdrawal"
        /\ lastTx'.tx \notin DOMAIN deposits \cup withdrawal_ids
        /\ ~AccountView(clients, lastTx'.client).frozen)
          => LET c == lastTx'.client
                 a == lastTx'.amount
                 old == AccountView(clients, c)
                 new == AccountView(clients', c)
             IN  /\ deposits' = deposits
                 /\ IF a <= old.available
                    THEN /\ result' = "Ok"
                         /\ new = [old EXCEPT !.available = @ - a]
                         /\ withdrawal_ids' = withdrawal_ids \cup {lastTx'.tx}
                    ELSE /\ result' = "InsufficientFunds"
                         /\ new = old
                         /\ withdrawal_ids' = withdrawal_ids]_vars

\* C14 witness: a withdrawal of exactly the available amount emptied the account
C14_Witness ==
    /\ lastTx.kind = "withdrawal"
    /\ result = "Ok"
    /\ lastTx.amount > 0
    /\ clients[lastTx.client].available = 0
    /\ lastTx.tx \in withdrawal_ids

\* C15: negative-available policy. A Dispute by the owner on an Ok deposit of
\* amount a always succeeds whatever available is: available decreases by a,
\* held increases by a, total and frozen are unchanged, the record is Disputed.
C15_DisputeAlwaysHolds ==
    [][(OwnerOp("dispute") /\ deposits[lastTx'.tx].state = "Ok")
          => LET c == lastTx'.client
                 a == deposits[lastTx'.tx].amount
             IN  /\ result' = "Ok"
                 /\ c \in DOMAIN clients /\ c \in DOMAIN clients'
                 /\ clients'[c].available = clients[c].available - a
                 /\ clients'[c].held = clients[c].held + a
                 /\ total(clients'[c]) = total(clients[c])
                 /\ clients'[c].frozen = clients[c].frozen
                 /\ deposits' = [deposits EXCEPT ![lastTx'.tx].state = "Disputed"]]_vars

\* C15 witness: a dispute of a deposit whose funds had been withdrawn left
\* available negative
C15_Witness ==
    /\ lastTx.kind = "dispute"
    /\ result = "Ok"
    /\ clients[lastTx.client].available < 0
    /\ clients[lastTx.client].held > 0

\* C16: chargeback effect. A Chargeback by the owner on a Disputed deposit of
\* amount a succeeds: held decreases by a, available is unchanged, total
\* decreases by a, the account is frozen and tx leaves the deposits map.
C16_ChargebackEffect ==
    [][(OwnerOp("chargeback") /\ deposits[lastTx'.tx].state = "Disputed")
          => LET c == lastTx'.client
                 a == deposits[lastTx'.tx].amount
             IN  /\ result' = "Ok"
                 /\ c \in DOMAIN clients /\ c \in DOMAIN clients'
                 /\ clients'[c].held = clients[c].held - a
                 /\ clients'[c].available = clients[c].available
                 /\ total(clients'[c]) = total(clients[c]) - a
                 /\ clients'[c].frozen
                 /\ deposits' = MapRemove(deposits, lastTx'.tx)]_vars

\* C16 witness: a chargeback of a positive amount froze the account and
\* evicted the record
C16_Witness ==
    /\ lastTx.kind = "chargeback"
    /\ result = "Ok"
    /\ chargedBack = {lastTx.tx}
    /\ sumChargebacks > 0
    /\ clients[lastTx.client].frozen
    /\ lastTx.tx \notin DOMAIN deposits

\* C12: dispute/resolve round trip. From any state in which deposit tx of
\* client c is Ok, Dispute(c, tx) succeeds, and the Resolve(c, tx) applied
\* right after it succeeds and leaves all three tables (every account and
\* every record) exactly as they were before the Dispute.
C12_DisputeResolveRoundTrip ==
    beforeDispute # NoSnapshot =>
       /\ result = "Ok"
       /\ lastTx.kind = "resolve" =>
             /\ clients = beforeDispute.clients
             /\ deposits = beforeDispute.deposits
             /\ withdrawal_ids = beforeDispute.withdrawal_ids

\* C12 witness: a Resolve has just undone the Dispute of a deposit of positive
\* amount on an account whose funds had partly been withdrawn
C12_Witness ==
    /\ beforeDispute # NoSnapshot
    /\ lastTx.kind = "resolve"
    /\ beforeDispute.deposits[lastTx.tx].amount > 0
    /\ withdrawal_ids # {}
    /\ clients[lastTx.client].available < beforeDispute.deposits[lastTx.tx].amount

\* C17: run is the fold of apply. Every turn of the loop hands the next
\* transaction of the stream to apply on the state the previous turn left and
\* goes on whatever apply returned; when run returns, the transactions applied
\* are exactly the stream, in stream order, each one once, errors included.
C17_RunIsFoldOfApply ==
    [][/\ runner' = "returned" => applied' = transactions'
       /\ applied' # applied =>
             /\ applied' = Append(applied, transactions[Len(applied) + 1])
             /\ lastTx' = transactions[Len(applied) + 1]
             /\ clients' = apply(lastTx').clients
             /\ deposits' = apply(lastTx').deposits
             /\ withdrawal_ids' = apply(lastTx').withdrawal_ids
             /\ runner' = "running"]_vars

\* C17 witness: run has returned after a stream whose first transaction
\* failed and whose second was applied successfully and changed a balance
C17_Witness ==
    /\ runner = "returned"
    /\ Len(outcomes) = 2
    /\ outcomes[1] \notin {"Ok"}
    /\ outcomes[2] = "Ok"
    /\ sumDeposits > 0

\* C18: FIFO ordering through the queue. Under every interleaving, the
\* transactions applied followed by those still queued are exactly the
\* transactions sent so far, in the order sent: none lost, duplicated or moved.
C18_FifoOrder ==
    /\ sent \in 0..Len(transactions)
    /\ applied \o queue = SubSeq(transactions, 1, sent)

\* C18 witness: one transaction is applied while a different one, sent after
\* it, waits in the queue and the producer task has not ended
C18_Witness ==
    /\ Len(applied) >= 1
    /\ Len(queue) >= 1
    /\ applied[1] # queue[1]
    /\ producer = "sending"

\* C19: drain on close. Under fair scheduling, once the producer has sent its
\* transactions and dropped the sender, the engine task eventually applies
\* every transaction sent, those still queued at that moment included, and run
\* returns.
C19_DrainOnClose ==
    <>(runner = "returned" /\ applied = transactions /\ queue = <<>>)

\* C19 witness: run has returned with everything applied although two
\* transactions were still queued when the sender was dropped
C19_Witness ==
    /\ runner = "returned"
    /\ producer = "done"
    /\ closedWith >= 2
    /\ applied = transactions

\* C22: lifecycle operations on a frozen account. For a frozen client c, a
\* Dispute sent by c on its Ok deposit and a Resolve or Chargeback sent by c
\* on its Disputed deposit succeed and move available and held by the
\* deposit's amount exactly as on an unfrozen account; a Deposit or
\* Withdrawal of c is rejected, and AccountFrozen is returned by nothing but
\* a Deposit or a Withdrawal.
C22_LifecycleOnFrozen ==
    [][/\ result' = "AccountFrozen" => lastTx'.kind \in FundsKinds
       /\ \A c \in DOMAIN clients :
            (clients[c].frozen /\ lastTx'.client = c) =>
               LET a == IF lastTx'.tx \in DOMAIN deposits
                        THEN deposits[lastTx'.tx].amount ELSE 0
                   s == RecState(deposits, lastTx'.tx)
               IN  /\ (OwnerOp("dispute") /\ s = "Ok") =>
                         /\ result' = "Ok"
                         /\ clients'[c] = [clients[c] EXCEPT !.available = @ - a,
                                                             !.held = @ + a]
                   /\ (OwnerOp("resolve") /\ s = "Disputed") =>
                         /\ result' = "Ok"
                         /\ clients'[c] = [clients[c] EXCEPT !.available = @ + a,
                                                             !.held = @ - a]
                   /\ (OwnerOp("chargeback") /\ s = "Disputed") =>
                         /\ result' = "Ok"
                         /\ clients'[c] = [clients[c] EXCEPT !.held = @ - a]
                   /\ lastTx'.kind \in FundsKinds =>
                         /\ result' \in {"AccountFrozen", "DuplicateTxId"}
                         /\ TablesUnchanged]_vars

\* C22 witness: a frozen client has just disputed one of its deposits and the
\* amount is held
C22_Witness ==
    /\ lastTx.kind = "dispute"
    /\ result = "Ok"
    /\ lastTx.client \in DOMAIN clients
    /\ clients[lastTx.client].frozen
    /\ clients[lastTx.client].held > 0
    /\ chargedBack # {}

\* C23: ClientNotFound is unreachable. After every apply, every stored deposit
\* record names a client that has an account, no transaction returns
\* ClientNotFound, and a transaction that fails leaves every record as it was.
C23_ClientNotFoundUnreachable ==
    [][/\ \A t \in DOMAIN deposits' : deposits'[t].client \in DOMAIN clients'
       /\ result' # "ClientNotFound"
       /\ IsError(result') => deposits' = deposits]_vars

\* C23 witness: a deposit of amount zero has been disputed by its owner, whose
\* account exists
C23_Witness ==
    /\ lastTx.kind = "dispute"
    /\ result = "Ok"
    /\ deposits[lastTx.tx].amount = 0
    /\ deposits[lastTx.tx].client \in DOMAIN clients

\* C24: reuse of a charged-back id. A successful Chargeback of tx leaves tx
\* known neither as a deposit nor as a withdrawal, and a Deposit that carries
\* a charged-back tx not taken again since, for a client that is not frozen, is
\* accepted, credits that client and stores a fresh record in state Ok.
C24_ChargedBackIdReusable ==
    [][/\ (lastTx'.kind = "chargeback" /\ result' = "Ok") =>
             /\ lastTx'.tx \notin DOMAIN deposits'
             /\ lastTx'.tx \notin withdrawal_ids'
       /\ (/\ lastTx'.kind = "deposit"
           /\ lastTx'.tx \in chargedBack
           /\ lastTx'.tx \notin DOMAIN deposits
           /\ lastTx'.tx \notin withdrawal_ids
           /\ ~AccountView(clients, lastTx'.client).frozen) =>
             /\ result' = "Ok"
             /\ AccountView(clients', lastTx'.client).available =
                   AccountView(clients, lastTx'.client).available + lastTx'.amount
             /\ lastTx'.tx \in DOMAIN deposits'
             /\ deposits'[lastTx'.tx] = [client |-> lastTx'.client,
                                         amount |-> lastTx'.amount,
                                         state |-> "Ok"]]_vars

\* C24 witness: a deposit carrying a charged-back id has been accepted and
\* its record is stored
C24_Witness ==
    /\ lastTx.kind = "deposit"
    /\ result = "Ok"
    /\ lastTx.tx \in chargedBack
    /\ lastTx.amount > 0
    /\ RecState(deposits, lastTx.tx) = "Ok"
    /\ clients[lastTx.client].available >= lastTx.amount

\* C25: per-client isolation. A transaction naming client c, whether it
\* succeeds or fails, leaves the account of every other client as it was (and
\* creates none); a Dispute, Resolve or Chargeback sent by c on a deposit
\* owned by another client returns ClientMismatch and changes no account and
\* no record.
C25_ClientIsolation ==
    [][/\ \A d \in ClientIds \ {lastTx'.client} :
            /\ d \in DOMAIN clients' <=> d \in DOMAIN clients
            /\ d \in DOMAIN clients => clients'[d] = clients[d]
       /\ (/\ lastTx'.kind \in LifecycleKinds
           /\ lastTx'.tx \in DOMAIN deposits
           /\ deposits[lastTx'.tx].client # lastTx'.client) =>
             /\ result' = "ClientMismatch"
             /\ TablesUnchanged]_vars

\* C25 witness: a client holding funds has disputed a deposit of another
\* client, who holds funds too, and was refused
C25_Witness ==
    /\ lastTx.kind = "dispute"
    /\ result = "ClientMismatch"
    /\ lastTx.client \in DOMAIN clients
    /\ clients[lastTx.client].available > 0
    /\ clients[deposits[lastTx.tx].client].available > 0
    /\ deposits[lastTx.tx].state = "Ok"

\* C26: withdrawals cannot be disputed. A Dispute, Resolve or Chargeback
\* naming the id of a successful withdrawal, or an id no accepted transaction
\* has used, returns TxNotFound and leaves accounts and records unchanged.
C26_WithdrawalNotDisputable ==
    [][(/\ lastTx'.kind \in LifecycleKinds
        /\ (lastTx'.tx \in withdrawn \/ accepted[lastTx'.tx] = 0)) =>
          /\ result' = "TxNotFound"
          /\ TablesUnchanged]_vars

\* C26 witness: the client that made a successful withdrawal has tried to
\* dispute it and was refused
C26_Witness ==
    /\ lastTx.kind = "dispute"
    /\ result = "TxNotFound"
    /\ lastTx.tx \in withdrawn
    /\ lastTx.tx \in withdrawal_ids
    /\ lastTx.client \in DOMAIN clients
    /\ sumWithdrawals > 0

\* C30: error precedence of Deposit and Withdrawal. The duplicate-id check
\* comes first, then the frozen check, then for a Withdrawal the funds check:
\* a known id on a frozen account gives DuplicateTxId, and a Withdrawal above
\* the available funds of a frozen account gives AccountFrozen.
C30_FundsErrorPrecedence ==
    [][lastTx'.kind \in FundsKinds =>
          LET v == AccountView(clients, lastTx'.client) IN
          result' = IF lastTx'.tx \in DOMAIN deposits \cup withdrawal_ids
                    THEN "DuplicateTxId"
                    ELSE IF v.frozen
                    THEN "AccountFrozen"
                    ELSE IF lastTx'.kind = "withdrawal" /\ v.available < lastTx'.amount
                    THEN "InsufficientFunds"
                    ELSE "Ok"]_vars

\* C30 witness: a withdrawal above the available funds of a frozen account,
\* under an id not seen before, was refused as AccountFrozen
C30_Witness ==
    /\ lastTx.kind = "withdrawal"
    /\ result = "AccountFrozen"
    /\ lastTx.tx \notin DOMAIN deposits \cup withdrawal_ids
    /\ clients[lastTx.client].frozen
    /\ clients[lastTx.client].available < lastTx.amount

\* C21: backpressure. Under every interleaving the number of transactions
\* sent by the producer and not yet received by the engine is the length of
\* the queue and never exceeds the channel capacity; while the queue is full
\* no send completes, so the next send follows a receive of the engine.
C21_Backpressure ==
    [][/\ sent' - Len(applied') = Len(queue')
       /\ Len(queue') <= ChannelCapacity
       /\ Len(queue) = ChannelCapacity => sent' = sent]_vars

\* C21 witness: the queue is full and the producer still has a transaction
\* to send
C21_Witness ==
    /\ Len(queue) = ChannelCapacity
    /\ producer = "sending"
    /\ sent < Len(transactions)
    /\ sent - Len(applied) = ChannelCapacity

\* text writes n in the display format: '-' exactly when n is negative, then
\* |n| div SCALE in decimal without leading zeros, '.', and |n| mod SCALE as
\* four digits
IsDisplayFormat(n, text) ==
    LET neg   == text # <<>> /\ Head(text) = "-"
        body  == IF neg THEN Tail(text) ELSE text
        ints  == SubSeq(body, 1, Len(body) - 5)
        fracs == SubSeq(body, Len(body) - 3, Len(body))
    IN  /\ neg <=> n.neg
        /\ Len(body) >= 6
        /\ body[Len(body) - 4] = "."
        /\ \A i \in 1..Len(ints) : IsDigit(ints[i])
        /\ \A i \in 1..4 : IsDigit(fracs[i])
        /\ Len(ints) > 1 => ints[1] # "0"
        /\ DigitsToBig(ints) = BigDivScale(n.mag)
        /\ DigitsToBig(fracs) = BigFromInt(BigModScale(n.mag))

\* C27: monetary display format. For every scaled integer n, once Display has
\* run, the text is an optional '-' (exactly when n < 0), |n| div 10000 in
\* decimal, '.', and |n| mod 10000 as exactly four zero-padded digits.
C27_DisplayFormat ==
    amountPc \in {"shown", "panicked", "parsed", "rejected"}
        => IsDisplayFormat(scaledAmount, shown)

\* C28: monetary round trip. For every scaled integer n of the i64 domain,
\* formatting n and parsing the text back through from_float ends with an
\* Amount, and that Amount is n.
C28_RoundTrip ==
    amountPc \in {"panicked", "parsed", "rejected"}
        => (amountPc = "parsed" /\ reparsed = scaledAmount)

\* The row is one the reader reports: it does not parse, its type is not
\* recognized, or it is a deposit or withdrawal without amount
IsBadRow(row) ==
    \/ row.malformed
    \/ row.type \notin {"deposit", "withdrawal", "dispute", "resolve", "chargeback"}
    \/ row.type \in {"deposit", "withdrawal"} /\ row.amount = <<>>

\* The rows consumed so far, each with its position among the data rows
RowsRead == [k \in 1..cursor |-> [k |-> k, row |-> rows[k]]]

\* The file lines of the bad rows consumed so far: the k-th data row is line k + 1
BadLinesRead ==
    LET bad == SelectSeq(RowsRead, LAMBDA e : IsBadRow(e.row))
    IN  [i \in 1..Len(bad) |-> bad[i].k + 1]

\* The transactions of the other rows consumed so far, in the order of the file
GoodTxsRead ==
    LET good == SelectSeq(RowsRead, LAMBDA e : ~IsBadRow(e.row))
    IN  [i \in 1..Len(good) |-> items[good[i].k].tx]

\* C29: row-level input errors do not abort ingestion. Every bad row yields
\* one error carrying its 1-indexed line number (header = line 1, k-th data
\* row = line k + 1) and no transaction; every other row, before and after
\* it, reaches the engine in the order of the file; the process ends, with
\* exit code 0, after all rows were consumed and applied.
C29_RowErrorsDoNotAbort ==
    /\ [](/\ [i \in 1..Len(warnings) |-> warnings[i].line] = BadLinesRead
          /\ applied \o queue = GoodTxsRead
          /\ exit_code # -1 =>
                /\ exit_code = 0
                /\ cursor = Len(rows)
                /\ queue = <<>>)
    /\ <>(exit_code = 0)

\* C29 witness: the process has ended with 0 on a file of three rows, the
\* second of them bad and reported at line 3, the first and the third applied
C29_Witness ==
    /\ exit_code = 0
    /\ Len(rows) = 3
    /\ IsBadRow(rows[2])
    /\ ~IsBadRow(rows[1])
    /\ ~IsBadRow(rows[3])
    /\ Len(warnings) = 1
    /\ warnings[1].line = 3
    /\ Len(applied) = 2
    /\ applied[1].kind = "deposit"
    /\ sumDeposits > 0


\* The state a lifecycle operation of the given kind refuses: a Dispute
\* refuses a record already Disputed, a Resolve or Chargeback one that is not
WrongState(kind, state) ==
    IF kind = "dispute" THEN state = "Disputed" ELSE state # "Disputed"

\* C31: error precedence of Dispute, Resolve and Chargeback. The record lookup
\* comes first (TxNotFound), then the ownership check (ClientMismatch), then
\* the state check (InvalidState): an operation by the wrong client on a
\* deposit that is also in the wrong state returns ClientMismatch, and that
\* error carries the deposit's real owner as expected and the sender as actual.
C31_LifecyclePrecedence ==
    [][(steps' = steps + 1 /\ lastTx'.kind \in LifecycleKinds) =>
         LET t == lastTx'
         IN  /\ result' =
                  IF t.tx \notin DOMAIN deposits THEN "TxNotFound"
                  ELSE IF deposits[t.tx].client # t.client THEN "ClientMismatch"
                  ELSE IF WrongState(t.kind, deposits[t.tx].state) THEN "InvalidState"
                  ELSE "Ok"
             /\ result' = "ClientMismatch" =>
                  /\ detail'.op = t.kind
                  /\ detail'.tx = t.tx
                  /\ detail'.expected = deposits[t.tx].client
                  /\ detail'.actual = t.client
    ]_vars

\* A Dispute by another client of a deposit already under dispute was
\* answered ClientMismatch, naming the owner and the sender
C31_Witness ==
    /\ lastTx.kind = "dispute"
    /\ result = "ClientMismatch"
    /\ lastTx.tx \in DOMAIN deposits
    /\ deposits[lastTx.tx].state = "Disputed"
    /\ deposits[lastTx.tx].client # lastTx.client
    /\ detail.expected = deposits[lastTx.tx].client
    /\ detail.actual = lastTx.client


\* C33: account creation. A client id has an entry in the accounts map exactly
\* when some Deposit or Withdrawal naming that client has passed the
\* duplicate-id check, whether or not it then succeeded: a Withdrawal that
\* fails for a client never seen before leaves an account with zero balances,
\* not frozen. A Dispute, Resolve or Chargeback never creates an account, and
\* neither does a Deposit or Withdrawal rejected with DuplicateTxId.
C33_AccountCreation ==
    /\ [](\A c \in ClientIds : c \in DOMAIN clients <=> ledger[c].seen)
    /\ [][steps' = steps + 1 =>
            /\ (lastTx'.kind \in LifecycleKinds \/ result' = "DuplicateTxId")
                 => DOMAIN clients' = DOMAIN clients
            /\ (lastTx'.kind = "withdrawal" /\ IsError(result')
                  /\ result' # "DuplicateTxId" /\ lastTx'.client \notin DOMAIN clients)
                 => /\ DOMAIN clients' = DOMAIN clients \cup {lastTx'.client}
                    /\ clients'[lastTx'.client] = ClientAccount_new(lastTx'.client)
       ]_vars

\* The first transaction of all was a Withdrawal that failed for lack of
\* funds, and its client now has the all-zero account
C33_Witness ==
    /\ steps = 1
    /\ lastTx.kind = "withdrawal"
    /\ result = "InsufficientFunds"
    /\ DOMAIN clients = {lastTx.client}
    /\ clients[lastTx.client] = ClientAccount_new(lastTx.client)


\* C34: frozen is exactly "has been charged back". After every apply, the
\* account of client c is frozen if and only if at least one Chargeback for
\* client c has succeeded earlier (an absent account reading as not frozen),
\* and no transaction resets frozen: an account that is frozen stays frozen.
C34_FrozenIffChargedBack ==
    /\ [](\A c \in ClientIds : AccountView(clients, c).frozen <=> ledger[c].charged)
    /\ [][\A c \in DOMAIN clients :
            clients[c].frozen => (c \in DOMAIN clients' /\ clients'[c].frozen)]_vars

\* A Dispute has just succeeded for a client whose Chargeback succeeded
\* earlier, and the account is still frozen, while another account that was
\* never charged back is not
C34_Witness ==
    /\ lastTx.kind = "dispute"
    /\ result = "Ok"
    /\ ledger[lastTx.client].charged
    /\ clients[lastTx.client].frozen
    /\ \E c \in DOMAIN clients : ~clients[c].frozen /\ ~ledger[c].charged


(* ------------------------- amounts of either sign --------------------- *)
\* Amount wraps an i64 and apply takes any Amount: the transactions whose
\* amounts may be negative as well
SignedAmounts == (0 - MaxAmount)..MaxAmount

NextSigned ==
    \/ \E c \in ClientIds, t \in TxIds, a \in SignedAmounts : Deposit(c, t, a) /\ UNCHANGED driverVars
    \/ \E c \in ClientIds, t \in TxIds, a \in SignedAmounts : Withdrawal(c, t, a) /\ UNCHANGED driverVars
    \/ \E c \in ClientIds, t \in TxIds : Dispute(c, t) /\ UNCHANGED driverVars
    \/ \E c \in ClientIds, t \in TxIds : Resolve(c, t) /\ UNCHANGED driverVars
    \/ \E c \in ClientIds, t \in TxIds : Chargeback(c, t) /\ UNCHANGED driverVars

SpecSigned == Init /\ [][NextSigned]_vars


\* C38: the engine does not validate the sign of amounts. apply accepts a
\* Deposit or Withdrawal with a negative amount without error: a negative
\* Deposit (fresh id, account not frozen) lowers available by the magnitude, a
\* negative Withdrawal on an account with available >= amount raises it, and a
\* successful Dispute of a negative-amount deposit lowers held(c) by the
\* magnitude, below zero when nothing else was held. held >= 0 therefore holds
\* only as long as every amount applied was >= 0.
C38_SignNotValidated ==
    /\ [](~negativeSeen => \A c \in DOMAIN clients : clients[c].held >= 0)
    /\ [][steps' = steps + 1 =>
            LET t == lastTx'
                c == t.client
                before == AccountView(clients, c)
            IN  /\ (t.kind = "deposit" /\ t.amount < 0 /\ is_unique(t.tx) /\ ~before.frozen)
                     => /\ result' = "Ok"
                        /\ clients'[c].available = before.available + t.amount
                        /\ clients'[c].available < before.available
                /\ (t.kind = "withdrawal" /\ t.amount < 0 /\ is_unique(t.tx)
                      /\ ~before.frozen /\ before.available >= t.amount)
                     => /\ result' = "Ok"
                        /\ clients'[c].available = before.available - t.amount
                        /\ clients'[c].available > before.available
                /\ (t.kind = "dispute" /\ result' = "Ok" /\ deposits[t.tx].amount < 0)
                     => /\ clients'[c].held = before.held + deposits[t.tx].amount
                        /\ clients'[c].held < before.held
                        /\ before.held = 0 => clients'[c].held < 0
       ]_vars

\* A negative Withdrawal was accepted for the client, and the Dispute of its
\* negative-amount deposit has just left it with held below zero
C38_Witness ==
    /\ lastTx.kind = "dispute"
    /\ result = "Ok"
    /\ deposits[lastTx.tx].amount < 0
    /\ clients[lastTx.client].held < 0
    /\ ledger[lastTx.client].wd < 0
    /\ negativeSeen


\* C36: per-client conservation. For each client c, total(c) equals the sum of
\* c's successful deposits, minus the sum of c's successful withdrawals, minus
\* the amounts of c's deposits that were successfully charged back (an absent
\* account counting as total 0), also when a charged-back id was later taken
\* again by another client's deposit.
C36_ClientConservation ==
    \A c \in ClientIds :
        LET account == AccountView(clients, c)
        IN  account.available + account.held
              = ledger[c].dep - ledger[c].wd - ledger[c].cb

\* The id of a deposit charged back to one client has just been taken again
\* by a successful Deposit of another client, and both have a non-zero sum
C36_Witness ==
    /\ lastTx.kind = "deposit"
    /\ result = "Ok"
    /\ lastTx.tx \in chargedBack
    /\ lastTx.amount # 0
    /\ \E c \in ClientIds \ {lastTx.client} :
          /\ ledger[c].charged
          /\ ledger[c].cb # 0
          /\ ledger[lastTx.client].cb = 0
          /\ chargedBack = {lastTx.tx}


\* C37: deposit records are immutable apart from state. From the Deposit that
\* inserts the record until the Chargeback that evicts it, the record's client
\* and amount never change and are those of that Deposit, so the amount held
\* by a Dispute is exactly the amount the Deposit credited, and exactly the
\* amount a Resolve releases or a Chargeback removes.
C37_RecordImmutable ==
    /\ [](\A tx \in DOMAIN deposits :
            /\ credited[tx].stored
            /\ deposits[tx].client = credited[tx].client
            /\ deposits[tx].amount = credited[tx].amount)
    /\ [][/\ \A tx \in DOMAIN deposits \cap DOMAIN deposits' :
                /\ deposits'[tx].client = deposits[tx].client
                /\ deposits'[tx].amount = deposits[tx].amount
          /\ (steps' = steps + 1 /\ lastTx'.kind \in LifecycleKinds /\ result' = "Ok") =>
                LET t == lastTx'
                    c == t.client
                    a == credited[t.tx].amount
                IN  /\ credited[t.tx].stored /\ credited[t.tx].client = c
                    /\ t.kind = "dispute" =>
                          /\ clients'[c].held = clients[c].held + a
                          /\ clients'[c].available = clients[c].available - a
                    /\ t.kind = "resolve" =>
                          /\ clients'[c].held = clients[c].held - a
                          /\ clients'[c].available = clients[c].available + a
                    /\ t.kind = "chargeback" =>
                          /\ clients'[c].held = clients[c].held - a
                          /\ clients'[c].available = clients[c].available
                          /\ t.tx \notin DOMAIN deposits'
       ]_vars

\* A deposit of a non-zero amount was disputed, resolved and disputed again,
\* its record still carrying the client and amount of the Deposit, and the
\* whole amount is on hold
C37_Witness ==
    /\ lastTx.kind = "dispute"
    /\ result = "Ok"
    /\ lastTx.tx \in resolved
    /\ credited[lastTx.tx].amount > 0
    /\ deposits[lastTx.tx].amount = credited[lastTx.tx].amount
    /\ deposits[lastTx.tx].client = credited[lastTx.tx].client
    /\ clients[lastTx.client].held = credited[lastTx.tx].amount


\* C35: once an account is frozen its total never increases. In a step taken
\* while client c is frozen, total(c) changes only by a further Chargeback of
\* c, and only downwards; so an account whose total is negative when frozen
\* keeps a negative total forever.
C35_FrozenTotalNeverIncreases ==
    [][\A c \in DOMAIN clients :
          clients[c].frozen =>
             /\ c \in DOMAIN clients'
             /\ total(clients'[c]) <= total(clients[c])
             /\ total(clients'[c]) # total(clients[c])
                  => (lastTx'.kind = "chargeback" /\ lastTx'.client = c /\ result' = "Ok")
             /\ total(clients[c]) < 0 => total(clients'[c]) < 0
    ]_vars


(* ------------------- apply on an engine held as a value ---------------- *)
\* Engine::new as a value: the three empty tables
Engine_new == [clients |-> <<>>, deposits |-> <<>>, withdrawal_ids |-> {}]

Engine(cl, dep, wids) == [clients |-> cl, deposits |-> dep, withdrawal_ids |-> wids]

\* apply_deposit and apply_withdrawal on the engine e: the tables afterwards
apply_funds_on(e, t) ==
    IF t.tx \in DOMAIN e.deposits \/ t.tx \in e.withdrawal_ids
    THEN e
    ELSE LET cl == entry_or_insert(e.clients, t.client) IN
         IF cl[t.client].frozen
         THEN Engine(cl, e.deposits, e.withdrawal_ids)
         ELSE IF t.kind = "deposit"
         THEN Engine([cl EXCEPT ![t.client] = credit(@, t.amount)],
                     MapInsert(e.deposits, t.tx, DepositRecord_new(t.client, t.amount)),
                     e.withdrawal_ids)
         ELSE IF cl[t.client].available < t.amount
         THEN Engine(cl, e.deposits, e.withdrawal_ids)
         ELSE Engine([cl EXCEPT ![t.client] = debit(@, t.amount)],
                     e.deposits, e.withdrawal_ids \cup {t.tx})

\* apply_dispute, apply_resolve and apply_chargeback on the engine e
apply_lifecycle_on(e, t) ==
    IF t.tx \notin DOMAIN e.deposits
    THEN e
    ELSE LET record == e.deposits[t.tx] IN
         IF record.client # t.client
         THEN e
         ELSE IF (t.kind = "dispute") = (record.state = "Disputed")
         THEN e
         ELSE IF t.kind = "chargeback"
         THEN IF t.client \notin DOMAIN e.clients
              THEN e
              ELSE Engine([e.clients EXCEPT ![t.client] = freeze(remove_held(@, record.amount))],
                          MapRemove(e.deposits, t.tx), e.withdrawal_ids)
         ELSE LET dep == [e.deposits EXCEPT ![t.tx].state =
                              IF t.kind = "dispute" THEN "Disputed" ELSE "Ok"]
              IN  IF t.client \notin DOMAIN e.clients
                  THEN Engine(e.clients, dep, e.withdrawal_ids)
                  ELSE Engine([e.clients EXCEPT ![t.client] =
                                   IF t.kind = "dispute" THEN hold(@, record.amount)
                                   ELSE release(@, record.amount)],
                              dep, e.withdrawal_ids)

\* Engine::apply on the engine e
apply_on(e, t) ==
    IF t.kind \in FundsKinds THEN apply_funds_on(e, t) ELSE apply_lifecycle_on(e, t)

RECURSIVE ApplyAll(_, _)
\* engine.apply(tx) for each tx of txs in order, with no queue and no tasks
ApplyAll(e, txs) ==
    IF txs = <<>> THEN e ELSE ApplyAll(apply_on(e, Head(txs)), Tail(txs))

\* The engine of the run as a value
EngineNow == Engine(clients, deposits, withdrawal_ids)

\* C32: determinism under scheduling. For a fixed sequence sent by the
\* producer, under every interleaving of the producer and the engine task the
\* engine state (accounts, deposit records, withdrawal ids) when run returns is
\* the state obtained by applying the sequence in order to a fresh engine with
\* no queue; at every moment it is the state obtained from the transactions
\* applied so far, and the producer never observes or affects the state in the
\* middle of an apply: its steps leave the tables alone, and the tables change
\* only by one whole apply of the next queued transaction.
C32_SchedulingDeterminism ==
    /\ [](EngineNow = ApplyAll(Engine_new, applied))
    /\ [](runner = "returned" => EngineNow = ApplyAll(Engine_new, transactions))
    /\ [][/\ (sent' # sent \/ producer' # producer) => TablesUnchanged
          /\ ~TablesUnchanged =>
                /\ queue # <<>>
                /\ applied' = Append(applied, Head(queue))
                /\ EngineNow' = apply_on(EngineNow, Head(queue))
                /\ UNCHANGED <<sent, producer, transactions>>
       ]_vars

\* run has returned after both transactions were applied, the second of them
\* sent while the first was already applied, and the order of the two matters:
\* the sequence reversed gives another state
C32_Witness ==
    /\ runner = "returned"
    /\ Len(transactions) = 2
    /\ closedWith = 1
    /\ EngineNow = ApplyAll(Engine_new, transactions)
    /\ EngineNow # ApplyAll(Engine_new, <<transactions[2], transactions[1]>>)

=============================================================================
